---- MODULE Spec2Model ----
(***************************************************************************)
(* go-httphandler: the request pipeline (pipeline.go, pipeline_handlers.go) *)
(* and the plain wrappers Handle / HandleWithInput.                        *)
(*                                                                         *)
(* The repository holds three designs of HandlePipelineWithInputN:         *)
(*   "separate"  pipeline.go:311-753, chained Pipeline structs, the input  *)
(*               decoder is called next to the pipeline;                   *)
(*   "chained"   pipeline_handlers.go:11-548, the input decoder becomes    *)
(*               stage N+1 of a chained pipeline (NewPipeline(N+1));       *)
(*   "flat"      pipeline_handlers.go:971-1713, the input decoder becomes  *)
(*               decoder N+1 of a flat PipelineWithInputN;                 *)
(* and "flatctx", HandlePipelineN without input                            *)
(* (pipeline_handlers.go:591-969).  "handle" and "handleinput" are the     *)
(* wrappers Handle and HandleWithInput.                                    *)
(***************************************************************************)
EXTENDS Integers, Sequences, FiniteSets, TLC

VARIABLES
    design,   \* which implementation is registered
    pc,       \* "new" | "building" | "idle" | "stage" | "input" | "invoke" | "render" | "done"
    pipe,     \* the pipeline value p built by NewPipelineN
    hpipe,    \* the pipeline value captured by the handler closure
    nopts,    \* number of option arguments passed to constructors so far
    req,      \* the request being served (its payload)
    ctx,      \* r.Context(), the context of the request being served
    vals,     \* val1..valk, the locals of the handler closure
    input,    \* the local `input`
    res,      \* the local `res`, the Responder returned by the business handler
    log,      \* the calls made while serving the request, in order
    w,        \* the http.ResponseWriter of the request
    reg,      \* route registration with several pipeline values and handlers (SpecReg)
    conc,     \* one handler serving several requests concurrently (SpecConc)
    rsp,      \* one Respond call of a responder of the response packages (SpecRespond)
    cmb,      \* one call of a decoder made by Combine2 (SpecCombine)
    eh        \* one call of handleContextError / handleInputError (SpecFallback)

\* the state of one registered handler serving one request at a time
reqvars == <<design, pc, pipe, hpipe, nopts, req, ctx, vals, input, res, log, w>>

vars == <<design, pc, pipe, hpipe, nopts, req, ctx, vals, input, res, log, w, reg, conc, rsp, cmb, eh>>

\* ---------------------------------------------------------------- constants
\* Pipeline1 .. Pipeline8
MaxArity == 8

\* option arguments passed over the whole construction of one pipeline
MaxOptions == 2

StatusOK == 200

StatusNoContent == 204

StatusBadRequest == 400

\* ---------------------------------------------------------------- inputs
Designs == {"separate", "chained", "flat", "flatctx", "handle", "handleinput"}

ChainedDesigns == {"separate", "chained"}

FlatDesigns == {"flat", "flatctx"}

PipelineDesigns == ChainedDesigns \cup FlatDesigns

\* entry points that decode an input after the stages
InputDesigns == {"separate", "chained", "flat", "handleinput"}

\* request payloads: a decoder's value is a function of the stage and the request
Payloads == {"r1", "r2"}

\* errors a decoder can return
Errs == {"e1", "e2"}

NoErr == "nil"

NoVal == [stage |-> -1, of |-> "none"]

\* the value stage k decodes from request r (stage 0 is the input decoder)
Decoded(k, r) == [stage |-> k, of |-> r]

\* custom error handlers a caller can pass with WithContextErrorHandler / WithInputErrorHandler
CustomContextHandlers == {"ctxA", "ctxB"}

CustomInputHandlers == {"inA", "inB"}

NilResponder == [kind |-> "nil", statusCode |-> 0, message |-> <<>>]

\* ---------------------------------------------------------------- options
\* the stage-error handler field and the input-error handler field of PipelineOptions
Fields == {"ContextErrorHandler", "InputErrorHandler"}

\* PipelineOptions{}: both handlers nil
EmptyOptions == [ContextErrorHandler |-> "nil", InputErrorHandler |-> "nil"]

defaultOptions == [ContextErrorHandler |-> "default", InputErrorHandler |-> "default"]

WithContextErrorHandler(handler) == [field |-> "ContextErrorHandler", handler |-> handler]

WithInputErrorHandler(handler) == [field |-> "InputErrorHandler", handler |-> handler]

Options ==
    {WithContextErrorHandler(h) : h \in CustomContextHandlers}
        \cup {WithInputErrorHandler(h) : h \in CustomInputHandlers}

\* option(&opts)
ApplyOption(option, opts) == [opts EXCEPT ![option.field] = option.handler]

\* for _, option := range options { option(&opts) }
RECURSIVE ApplyOptions(_, _)
ApplyOptions(options, opts) ==
    IF options = <<>> THEN opts
    ELSE ApplyOptions(Tail(options), ApplyOption(Head(options), opts))

\* the option lists a constructor can be called with, n arguments at most
RECURSIVE OptionLists(_)
OptionLists(n) ==
    IF n = 0 THEN {<<>>}
    ELSE OptionLists(n - 1)
            \cup {Append(l, o) : l \in {x \in OptionLists(n - 1) : Len(x) = n - 1}, o \in Options}

\* ---------------------------------------------------------------- response writer
\* httptest.ResponseRecorder: the first WriteHeader sets the code, Write appends to the body
NewRecorder == [code |-> 0, body |-> <<>>, writeHeaderCalls |-> 0]

WriteHeader(rw, statusCode) ==
    [rw EXCEPT !.code = IF rw.code = 0 THEN statusCode ELSE rw.code,
               !.writeHeaderCalls = rw.writeHeaderCalls + 1]

Write(rw, data) ==
    [rw EXCEPT !.code = IF rw.code = 0 THEN StatusOK ELSE rw.code,
               !.body = rw.body \o data]

\* ---------------------------------------------------------------- responders
\* errorResponder(err): &errorResponse{statusCode: http.StatusBadRequest, err: err}
errorResponder(err) == [kind |-> "errorResponse", statusCode |-> StatusBadRequest, message |-> err]

\* defaultErrorHandler(err) answering with the internal-error status
defaultErrorHandlerInternal(err) ==
    [kind |-> "ResponderFunc", statusCode |-> 500, message |-> <<"Error: ", err>>]

\* defaultErrorHandler(err): ResponderFunc writing 400 and "Error: <err>"
defaultErrorHandler(err) ==
    [kind |-> "ResponderFunc", statusCode |-> StatusBadRequest, message |-> <<"Error: ", err>>]

\* defaultOptions().ContextErrorHandler: fmt.Errorf("context%d decode error: %w", stage, err)
DefaultContextErrorHandler(stage, err) ==
    errorResponder(<<"context", ToString(stage), " decode error: ", err>>)

\* defaultOptions().InputErrorHandler: fmt.Errorf("input decode error: %w", err)
DefaultInputErrorHandler(err) == errorResponder(<<"input decode error: ", err>>)

\* a caller's handlers, as custom401Handler / custom422Handler of the tests
CustomStatus(h) ==
    CASE h = "ctxA" -> 401
      [] h = "ctxB" -> 403
      [] h = "inA" -> 422
      [] OTHER -> 409

CustomContextErrorHandler(h, stage, err) ==
    [kind |-> "customErrorResponder", statusCode |-> CustomStatus(h),
     message |-> <<h, " failed at stage ", ToString(stage), ": ", err>>]

CustomInputErrorHandler(h, err) ==
    [kind |-> "customErrorResponder", statusCode |-> CustomStatus(h),
     message |-> <<h, " invalid input: ", err>>]

\* calling a nil func panics: nothing is written by the wrapper
PanicResponder == [kind |-> "panic", statusCode |-> 0, message |-> <<>>]

\* options.ContextErrorHandler(stage, err)
CallContextErrorHandler(opts, stage, err) ==
    CASE opts.ContextErrorHandler = "default" -> DefaultContextErrorHandler(stage, err)
      [] opts.ContextErrorHandler = "nil" -> PanicResponder
      [] OTHER -> CustomContextErrorHandler(opts.ContextErrorHandler, stage, err)

\* options.InputErrorHandler(err)
CallInputErrorHandler(opts, err) ==
    CASE opts.InputErrorHandler = "default" -> DefaultInputErrorHandler(err)
      [] opts.InputErrorHandler = "nil" -> PanicResponder
      [] OTHER -> CustomInputErrorHandler(opts.InputErrorHandler, err)

\* mutant of handleContextError: the nil check is missing
handleContextErrorUnchecked(options, stage, err) ==
    CallContextErrorHandler(options, stage, err)

handleContextError(options, stage, err) ==
    IF options.ContextErrorHandler = "nil"
    THEN defaultErrorHandler(err)
    ELSE CallContextErrorHandler(options, stage, err)

handleInputError(options, err) ==
    IF options.InputErrorHandler = "nil"
    THEN defaultErrorHandler(err)
    ELSE CallInputErrorHandler(options, err)

\* testResponder / mockResponder: what a business handler returns
testResponder(message) == [kind |-> "testResponder", statusCode |-> StatusOK, message |-> message]

\* Responder.Respond(w, r)
Respond(responder, rw) ==
    CASE responder.kind = "errorResponse" ->
            \* http.Error(w, e.err.Error(), e.statusCode)
            Write(WriteHeader(rw, responder.statusCode), responder.message \o <<"\n">>)
      [] responder.kind = "panic" -> rw
      [] OTHER -> Write(WriteHeader(rw, responder.statusCode), responder.message)

\* ---------------------------------------------------------------- pipelines
\* A pipeline value: its number of decoders and the options field of every
\* struct it is made of (p.p1.options .. p.options for a chained PipelineN,
\* the single options field for a flat one).
NoPipeline == [arity |-> 0, levels |-> <<>>]

\* p.options
POptions(p) == p.levels[Len(p.levels)]

\* NewPipeline1(decoder, options...)
NewPipeline1(options) ==
    [arity |-> 1, levels |-> <<ApplyOptions(options, defaultOptions)>>]

\* chained NewPipeline2..8(p, decoder, options...): opts := p.options
NewPipelineN(p, options) ==
    [arity |-> p.arity + 1,
     levels |-> Append(p.levels, ApplyOptions(options, POptions(p)))]

\* flat NewPipeline2..8(decoder1, .., decoderN, options...): opts := defaultOptions()
FlatNewPipelineN(n, options) ==
    [arity |-> n, levels |-> <<ApplyOptions(options, defaultOptions)>>]

\* chained NewPipelineWithInput1..7(p, inputDecoder, options...)
NewPipelineWithInputN(p, options) == NewPipelineN(p, options)

\* flat NewPipelineWithInput1..8(p, inputDecoder, options...): opts := &PipelineOptions{}
FlatNewPipelineWithInputN(p, options) ==
    [arity |-> p.arity + 1, levels |-> <<ApplyOptions(options, EmptyOptions)>>]

\* the pipeline value the closure returned by HandlePipeline[WithInput]N reads
HandlerPipeline(d, p) ==
    CASE d = "separate" -> p
      [] d = "chained" -> IF p.arity < MaxArity THEN NewPipelineWithInputN(p, <<>>) ELSE p
      [] d = "flat" -> FlatNewPipelineWithInputN(p, <<>>)
      [] d = "flatctx" -> p
      [] OTHER -> NoPipeline

\* ---------------------------------------------------------------- the handler closure
\* number of context stages the closure runs
Stages == IF design \in PipelineDesigns THEN pipe.arity ELSE 0

\* mutant of StageArgs: the context values are passed in reverse order
StageArgsReversed(vs, k) == [i \in 1..(k - 1) |-> vs[k - i]]

\* the arguments after r of the stage-k decoder call: val1 .. val(k-1)
StageArgs(vs, k) == SubSeq(vs, 1, k - 1)

\* the arguments inputDecoder gets after r; the closure of NewPipelineWithInputN
\* drops the context values: func(r, c1, .., cN) { return inputDecoder(r) }
InputArgs(vs) == <<>>

\* no request, or a handler called without a context argument
NoContext == [stage |-> -1, of |-> "no context"]

\* the contexts a request can arrive with: live, or cancelled already
Contexts == {[stage |-> -1, of |-> "live context"], [stage |-> -1, of |-> "cancelled context"]}

\* the context argument of the business handler: r.Context() where the handler
\* type takes a context.Context, none in pipeline.go
HandlerContext(d, c) == IF d = "separate" THEN NoContext ELSE c

\* mutant of HandlerArgs: the input is passed first
HandlerArgsInputFirst(d, vs, in) == IF d \in InputDesigns THEN <<in>> \o vs ELSE vs

\* the arguments of the business handler (after ctx, where there is one)
HandlerArgs(d, vs, in) == IF d \in InputDesigns THEN Append(vs, in) ELSE vs

\* mutant of StageErrorResponder: a chained handler reports stage k through
\* the options of the inner pipeline that contributed stage k (p.p1...options)
StageErrorResponderOfStage(d, hp, k, err) ==
    IF d = "flat"
    THEN handleContextError(POptions(hp), k, err)
    ELSE IF d \in ChainedDesigns
    THEN CallContextErrorHandler(hp.levels[k], k, err)
    ELSE CallContextErrorHandler(POptions(hp), k, err)

\* Responder for a failed stage k
StageErrorResponder(d, hp, k, err) ==
    IF d = "flat"
    THEN handleContextError(POptions(hp), k, err)
    ELSE CallContextErrorHandler(POptions(hp), k, err)

\* HandleWithInput answering a failed decode with the decoder's error text
InvalidPayloadResponderRaw == errorResponder(<<"decoding failed">>)

\* HandleWithInput: http.Error(w, "Invalid request payload", http.StatusBadRequest)
InvalidPayloadResponder == errorResponder(<<"Invalid request payload">>)

\* Responder for a failed input decode, taken from the stage-error handler as
\* the failure of stage N+1
InputErrorResponderAsStage(d, hp, err) ==
    IF d = "handleinput" THEN InvalidPayloadResponder
    ELSE StageErrorResponder(d, hp, hp.arity, err)

\* Responder for a failed input decode
InputErrorResponder(d, hp, err) ==
    CASE d = "flat" -> handleInputError(POptions(hp), err)
      [] d = "handleinput" -> InvalidPayloadResponder
      [] OTHER -> CallInputErrorHandler(POptions(hp), err)

\* mutant of AfterStage: the last stage decoder is skipped
AfterStageSkipLast(d, n, k) ==
    IF k + 1 < n THEN "stage"
    ELSE IF d \in InputDesigns THEN "input" ELSE "invoke"

\* where the closure goes after k stages succeeded
AfterStage(d, n, k) ==
    IF k < n THEN "stage"
    ELSE IF d \in InputDesigns THEN "input" ELSE "invoke"

\* mutant of AfterErrorRender: the `return` after Respond is missing
AfterErrorRenderFallThrough(d, n, k) == AfterStage(d, n, k)

\* mutant of AfterErrorRender: the failed decoder is tried again
AfterErrorRenderRetry(d, n, k) == IF k < n THEN "stage" ELSE "input"

\* where the closure goes after it rendered an error Responder: `return`
AfterErrorRender(d, n, k) == "done"

\* mutant of RenderResponse: a nil Responder is answered with 200 and a body
RenderResponseNilAsOK(responder, rw) ==
    IF responder = NilResponder
    THEN Write(WriteHeader(rw, StatusOK), <<"null">>)
    ELSE Respond(responder, rw)

\* mutant of RenderResponse: the 204 header is written before the nil check
RenderResponseHeaderFirst(responder, rw) ==
    IF responder = NilResponder
    THEN WriteHeader(rw, StatusNoContent)
    ELSE Respond(responder, WriteHeader(rw, StatusNoContent))

\* if res == nil { w.WriteHeader(http.StatusNoContent); return }; res.Respond(w, r)
RenderResponse(responder, rw) ==
    IF responder = NilResponder
    THEN WriteHeader(rw, StatusNoContent)
    ELSE Respond(responder, rw)

Event(ev, stage, args, val, err, h) ==
    [ev |-> ev, stage |-> stage, args |-> args, val |-> val, err |-> err, h |-> h]

RECURSIVE Strings(_)
Strings(vs) == IF vs = <<>> THEN <<>> ELSE <<ToString(Head(vs))>> \o Strings(Tail(vs))

\* ---------------------------------------------------------------- state
\* no registration program is running
RegOff == [design |-> "none"]

\* no handler is serving concurrent requests
ConcOff == [design |-> "none"]

\* no Respond call is running
RspOff == [pc |-> "off"]

\* no combined decoder is running
CmbOff == [pc |-> "off"]

EhOff == [pc |-> "off"]

Idle ==
    /\ req = "none"
    /\ ctx = NoContext
    /\ vals = <<>>
    /\ input = NoVal
    /\ res = NilResponder
    /\ log = <<>>
    /\ w = NewRecorder

Init ==
    /\ design \in Designs
    /\ pc = "new"
    /\ pipe = NoPipeline
    /\ hpipe = NoPipeline
    /\ nopts = 0
    /\ Idle
    /\ reg = RegOff
    /\ conc = ConcOff
    /\ rsp = RspOff
    /\ cmb = CmbOff
    /\ eh = EhOff

\* ---------------------------------------------------------------- registration
\* p := NewPipeline1(decoder, options...)
DoNewPipeline1 ==
    /\ pc = "new"
    /\ design \in PipelineDesigns
    /\ \E options \in OptionLists(MaxOptions - nopts) :
        /\ pipe' = NewPipeline1(options)
        /\ nopts' = nopts + Len(options)
    /\ pc' = "building"
    /\ UNCHANGED <<design, hpipe, req, ctx, vals, input, res, log, w, reg, conc, rsp, cmb, eh>>

\* chained: p := NewPipeline(k+1)(p, decoder, options...)
DoNewPipelineN ==
    /\ pc = "building"
    /\ design \in ChainedDesigns
    /\ pipe.arity < MaxArity
    /\ \E options \in OptionLists(MaxOptions - nopts) :
        /\ pipe' = NewPipelineN(pipe, options)
        /\ nopts' = nopts + Len(options)
    /\ UNCHANGED <<design, pc, hpipe, req, ctx, vals, input, res, log, w, reg, conc, rsp, cmb, eh>>

\* flat: p := NewPipelineN(decoder1, .., decoderN, options...)
DoFlatNewPipelineN ==
    /\ pc = "new"
    /\ design \in FlatDesigns
    /\ \E n \in 2..MaxArity, options \in OptionLists(MaxOptions - nopts) :
        /\ pipe' = FlatNewPipelineN(n, options)
        /\ nopts' = nopts + Len(options)
    /\ pc' = "building"
    /\ UNCHANGED <<design, hpipe, req, ctx, vals, input, res, log, w, reg, conc, rsp, cmb, eh>>

\* HandlePipelineWithInputN(p, inputDecoder, handler) / HandlePipelineN(p, handler)
DoHandlePipeline ==
    /\ pc = "building"
    /\ hpipe' = HandlerPipeline(design, pipe)
    /\ pc' = "idle"
    /\ UNCHANGED <<design, pipe, nopts, req, ctx, vals, input, res, log, w, reg, conc, rsp, cmb, eh>>

\* Handle(handler) / HandleWithInput(handler)
DoHandle ==
    /\ pc = "new"
    /\ design \notin PipelineDesigns
    /\ pc' = "idle"
    /\ UNCHANGED <<design, pipe, hpipe, nopts, req, ctx, vals, input, res, log, w, reg, conc, rsp, cmb, eh>>

\* ---------------------------------------------------------------- one request
\* the returned http.HandlerFunc is called with a fresh ResponseWriter
ServeHTTP ==
    /\ pc = "idle"
    /\ \E r \in Payloads : req' = r
    /\ \E c \in Contexts : ctx' = c
    /\ pc' = AfterStage(design, Stages, 0)
    /\ UNCHANGED <<design, pipe, hpipe, nopts, vals, input, res, log, w, reg, conc, rsp, cmb, eh>>

\* valk, err := decoderk(r, val1, .., val(k-1)); if err != nil { ...ContextErrorHandler(k, err) }
DecodeStage ==
    /\ pc = "stage"
    /\ LET k == Len(vals) + 1
           args == StageArgs(vals, k)
       IN \E err \in {NoErr} \cup Errs :
            IF err = NoErr
            THEN /\ vals' = Append(vals, Decoded(k, req))
                 /\ log' = Append(log, Event("decode", k, args, Decoded(k, req), NoErr, "decoder"))
                 /\ pc' = AfterStage(design, Stages, k)
                 /\ res' = res
            ELSE /\ vals' = vals
                 /\ log' = log \o <<Event("decode", k, args, NoVal, err, "decoder"),
                                    Event("errorHandler", k, <<>>, NoVal, err,
                                          POptions(hpipe).ContextErrorHandler)>>
                 /\ res' = StageErrorResponder(design, hpipe, k, err)
                 /\ pc' = "errorRendering"
    /\ UNCHANGED <<design, pipe, hpipe, nopts, req, ctx, input, w, reg, conc, rsp, cmb, eh>>

\* input, err := inputDecoder(r); if err != nil { ...InputErrorHandler(err) }
DecodeInput ==
    /\ pc = "input"
    /\ LET args == InputArgs(vals)
       IN \E err \in {NoErr} \cup Errs :
            IF err = NoErr
            THEN /\ input' = Decoded(0, req)
                 /\ log' = Append(log, Event("input", Stages + 1, args, Decoded(0, req), NoErr, "decoder"))
                 /\ pc' = "invoke"
                 /\ res' = res
            ELSE /\ input' = input
                 /\ log' = log \o <<Event("input", Stages + 1, args, NoVal, err, "decoder"),
                                    Event("errorHandler", 0, <<>>, NoVal, err,
                                          IF design = "handleinput" THEN "http.Error"
                                          ELSE POptions(hpipe).InputErrorHandler)>>
                 /\ res' = InputErrorResponder(design, hpipe, err)
                 /\ pc' = "errorRendering"
    /\ UNCHANGED <<design, pipe, hpipe, nopts, req, ctx, vals, w, reg, conc, rsp, cmb, eh>>

\* ...ErrorHandler(..).Respond(w, r); return
RenderError ==
    /\ pc = "errorRendering"
    /\ w' = Respond(res, w)
    /\ log' = Append(log, Event("render", 0, <<>>, NoVal, NoErr, "error"))
    /\ pc' = AfterErrorRender(design, Stages, Len(vals))
    /\ UNCHANGED <<design, pipe, hpipe, nopts, req, ctx, vals, input, res, reg, conc, rsp, cmb, eh>>

\* res := handler(ctx, val1, .., valN, input)
CallHandler ==
    /\ pc = "invoke"
    /\ LET args == HandlerArgs(design, vals, input)
       IN /\ \E ret \in {NilResponder, testResponder(<<"Success">> \o Strings(args))} :
                res' = ret
          /\ log' = Append(log, Event("handler", 0, args, HandlerContext(design, ctx), NoErr,
                                  "handler"))
    /\ pc' = "render"
    /\ UNCHANGED <<design, pipe, hpipe, nopts, req, ctx, vals, input, w, reg, conc, rsp, cmb, eh>>

\* if res == nil { w.WriteHeader(http.StatusNoContent); return }; res.Respond(w, r)
Render ==
    /\ pc = "render"
    /\ w' = RenderResponse(res, w)
    /\ log' = Append(log, Event("render", 0, <<>>, NoVal, NoErr,
                               IF res = NilResponder THEN "noContent" ELSE "responder"))
    /\ pc' = "done"
    /\ UNCHANGED <<design, pipe, hpipe, nopts, req, ctx, vals, input, res, reg, conc, rsp, cmb, eh>>

\* the closure has returned; the handler waits for the next request
Return ==
    /\ pc = "done"
    /\ pc' = "idle"
    /\ req' = "none"
    /\ ctx' = NoContext
    /\ vals' = <<>>
    /\ input' = NoVal
    /\ res' = NilResponder
    /\ log' = <<>>
    /\ w' = NewRecorder
    /\ UNCHANGED <<design, pipe, hpipe, nopts, reg, conc, rsp, cmb, eh>>

Next ==
    \/ DoNewPipeline1
    \/ DoNewPipelineN
    \/ DoFlatNewPipelineN
    \/ DoHandlePipeline
    \/ DoHandle
    \/ ServeHTTP
    \/ DecodeStage
    \/ DecodeInput
    \/ RenderError
    \/ CallHandler
    \/ Render
    \/ Return

Spec == Init /\ [][Next]_vars

TypeOK ==
    /\ design \in Designs
    /\ pc \in {"new", "building", "idle", "stage", "input", "invoke", "render",
               "errorRendering", "done"}
    /\ nopts \in 0..MaxOptions
    /\ Len(vals) <= MaxArity

\* ================================================================ SpecReg
\* Route registration: several pipeline values are constructed, extended and
\* turned into handlers, and the handlers serve requests.  reg holds the
\* pipeline variables of the registration code, the handlers built so far,
\* the `opts` local of the last constructor call and the last response.

\* the pipeline variables and the handler variables of the registration code,
\* assigned in this order (as pipeline1, pipeline2, handler1, handler2 of
\* TestCustomErrorHandler)
PipelineVars == <<"pipeline1", "pipeline2", "pipeline3">>

HandlerVars == <<"handler1", "handler2">>

\* arities the flat NewPipelineN is called with in a registration
FlatArities == {2, 3}

\* the options a registration passes: one custom handler of each kind
RegOptions == {WithContextErrorHandler("ctxA"), WithInputErrorHandler("inA")}

\* the option lists of a registration's constructor calls, n arguments at most
RegOptionLists(n) == {l \in OptionLists(n) : \A i \in DOMAIN l : l[i] \in RegOptions}

\* mutant of InitialOpts: opts outlives the constructor call
InitialOptsStale(prev) == prev

\* opts := defaultOptions(): every constructor call starts from a fresh value,
\* whatever the previous call left in its own opts
InitialOpts(prev) == defaultOptions

\* mutant of CallerPipeline: the options are applied to the caller's p.options
CallerPipelineAliased(p, opts) == [p EXCEPT !.levels[Len(p.levels)] = opts]

\* the caller's p after NewPipelineN(p, decoder, options...): p is passed by
\* value and the options are applied to the copy opts := p.options
CallerPipeline(p, opts) == p

\* what one request does: either decoder failAt fails with err (n + 1: the
\* input decoder), or every decoder succeeds (failAt = 0) and the business
\* handler returns nil or a Responder
Outcomes(d, n) ==
    [failAt : 1..(IF d \in InputDesigns THEN n + 1 ELSE n), err : {"e1"},
     nilRes : {FALSE}, req : {"r1"}]
        \cup [failAt : {0}, err : {NoErr}, nilRes : BOOLEAN, req : {"r1"}]

\* the response the closure of HandlePipeline[WithInput]N over the pipeline
\* value hp of n stages writes for a request with outcome o
ServeResponse(d, hp, n, o) ==
    IF o.failAt \in 1..n
    THEN Respond(StageErrorResponder(d, hp, o.failAt, o.err), NewRecorder)
    ELSE IF o.failAt = n + 1
    THEN Respond(InputErrorResponder(d, hp, o.err), NewRecorder)
    ELSE LET vs == [k \in 1..n |-> Decoded(k, o.req)]
             args == HandlerArgs(d, vs, Decoded(0, o.req))
         IN RenderResponse(IF o.nilRes THEN NilResponder
                           ELSE testResponder(<<"Success">> \o Strings(args)),
                           NewRecorder)

NoResponse == [h |-> 0]

RegInit ==
    /\ design = "handle"
    /\ pc = "new"
    /\ pipe = NoPipeline
    /\ hpipe = NoPipeline
    /\ nopts = 0
    /\ Idle
    /\ conc = ConcOff
    /\ rsp = RspOff
    /\ cmb = CmbOff
    /\ eh = EhOff
    /\ \E d \in PipelineDesigns :
        reg = [design |-> d, pipes |-> <<>>, handlers |-> <<>>, opts |-> defaultOptions,
               nopts |-> 0, last |-> NoResponse]

\* a pipeline variable: its value now, the value its constructor returned and
\* the decoders and options it was constructed from
PipeVar(value, recipe) == [value |-> value, built |-> value, recipe |-> recipe]

\* p := NewPipeline1(decoder, options...)
RegNewPipeline1 ==
    /\ reg.design # "none"
    /\ Len(reg.pipes) < Len(PipelineVars)
    /\ \E options \in RegOptionLists(MaxOptions - reg.nopts) :
        LET opts == ApplyOptions(options, InitialOpts(reg.opts))
            p == [arity |-> 1, levels |-> <<opts>>]
        IN reg' = [reg EXCEPT !.pipes = Append(@, PipeVar(p, [n |-> 1, lists |-> <<options>>])),
                              !.opts = opts,
                              !.nopts = @ + Len(options)]
    /\ UNCHANGED <<reqvars, conc, rsp, cmb, eh>>

\* chained: q := NewPipeline(k+1)(p, decoder, options...)
RegNewPipelineN ==
    /\ reg.design \in ChainedDesigns
    /\ Len(reg.pipes) < Len(PipelineVars)
    /\ \E i \in DOMAIN reg.pipes, options \in RegOptionLists(MaxOptions - reg.nopts) :
        LET p == reg.pipes[i].value
            opts == ApplyOptions(options, POptions(p))
            q == [arity |-> p.arity + 1, levels |-> Append(p.levels, opts)]
        IN reg' = [reg EXCEPT !.pipes = Append([@ EXCEPT ![i].value = CallerPipeline(p, opts)],
                                               PipeVar(q, [n |-> p.arity + 1,
                                                          lists |-> Append(reg.pipes[i].recipe.lists, options)])),
                              !.opts = opts,
                              !.nopts = @ + Len(options)]
    /\ UNCHANGED <<reqvars, conc, rsp, cmb, eh>>

\* flat: p := NewPipelineN(decoder1, .., decoderN, options...)
RegFlatNewPipelineN ==
    /\ reg.design \in FlatDesigns
    /\ Len(reg.pipes) < Len(PipelineVars)
    /\ \E n \in FlatArities, options \in RegOptionLists(MaxOptions - reg.nopts) :
        LET opts == ApplyOptions(options, InitialOpts(reg.opts))
            p == [arity |-> n, levels |-> <<opts>>]
        IN reg' = [reg EXCEPT !.pipes = Append(@, PipeVar(p, [n |-> n, lists |-> <<options>>])),
                              !.opts = opts,
                              !.nopts = @ + Len(options)]
    /\ UNCHANGED <<reqvars, conc, rsp, cmb, eh>>

\* h := HandlePipelineWithInputN(p, inputDecoder, handler) / HandlePipelineN(p, handler)
RegHandlePipeline ==
    /\ reg.design # "none"
    /\ Len(reg.handlers) < Len(HandlerVars)
    /\ \E i \in DOMAIN reg.pipes :
        reg' = [reg EXCEPT !.handlers =
                    Append(@, [from |-> i, stages |-> reg.pipes[i].value.arity,
                               pipeline |-> HandlerPipeline(reg.design, reg.pipes[i].value)])]
    /\ UNCHANGED <<reqvars, conc, rsp, cmb, eh>>

\* h(w, r): one request is served by a handler; the closure only reads the
\* pipeline value it captured
RegServeHTTP ==
    /\ reg.design # "none"
    /\ \E h \in DOMAIN reg.handlers :
        \E o \in Outcomes(reg.design, reg.handlers[h].stages) :
            reg' = [reg EXCEPT !.last =
                        [h |-> h, o |-> o,
                         w |-> ServeResponse(reg.design, reg.handlers[h].pipeline,
                                             reg.handlers[h].stages, o)]]
    /\ UNCHANGED <<reqvars, conc, rsp, cmb, eh>>

RegNext ==
    \/ RegNewPipeline1
    \/ RegNewPipelineN
    \/ RegFlatNewPipelineN
    \/ RegHandlePipeline
    \/ RegServeHTTP

SpecReg == RegInit /\ [][RegNext]_vars

\* ================================================================ SpecConc
\* One handler, several requests served concurrently: net/http calls the
\* returned http.HandlerFunc on one goroutine per request.  Every goroutine
\* has its own position, request, ResponseWriter and call log; the locals of
\* the closure (val1..valN, input, res) live in the frame Frame(g).

\* the goroutines serving requests at the same time
Goroutines == {"g1", "g2"}

\* arities of the pipeline the handler is built from
ConcArities == {1, 2, 3}

\* mutant of Frame: the locals are declared outside the closure and shared
FrameShared(g) == "g1"

\* val1, err := ..; input, err := ..; res := ..: declared with := inside the
\* closure, so every invocation has its own
Frame(g) == g

\* p as the registration built it: arity n, the options passed to NewPipeline1
\* (chained, later stages added without options) or to the flat NewPipelineN
RECURSIVE ConcPipeline(_, _, _)
ConcPipeline(d, n, options) ==
    IF n = 1 THEN NewPipeline1(options)
    ELSE IF d \in FlatDesigns THEN FlatNewPipelineN(n, options)
    ELSE NewPipelineN(ConcPipeline(d, n - 1, options), <<>>)

\* the locals of an invocation before its first statement
NewFrame(n) == [vals |-> [k \in 1..n |-> NoVal], input |-> NoVal, res |-> NilResponder]

\* a goroutine that is not serving a request
IdleGoroutine == [pc |-> "idle", k |-> 0, req |-> "none", log |-> <<>>, w |-> NewRecorder]

ConcInit ==
    /\ design = "handle"
    /\ pc = "new"
    /\ pipe = NoPipeline
    /\ hpipe = NoPipeline
    /\ nopts = 0
    /\ Idle
    /\ reg = RegOff
    /\ rsp = RspOff
    /\ cmb = CmbOff
    /\ eh = EhOff
    /\ \E d \in PipelineDesigns, n \in ConcArities, options \in RegOptionLists(MaxOptions) :
        conc = [design |-> d, stages |-> n,
                hpipe |-> HandlerPipeline(d, ConcPipeline(d, n, options)),
                frames |-> [g \in Goroutines |-> NewFrame(n)],
                gs |-> [g \in Goroutines |-> IdleGoroutine]]

\* the position after stage k succeeded (k = 0: at the start of the closure)
ConcAfterStage(g, k) ==
    LET at == AfterStage(conc.design, conc.stages, k)
    IN [conc.gs[g] EXCEPT !.pc = at, !.k = IF at = "stage" THEN k + 1 ELSE 0]

\* net/http calls the handler for a new request on goroutine g
ConcServeHTTP(g) ==
    /\ conc.design # "none"
    /\ conc.gs[g].pc = "idle"
    /\ \E r \in Payloads :
        conc' = [conc EXCEPT
                    !.gs[g] = [ConcAfterStage(g, 0) EXCEPT !.req = r],
                    !.frames[Frame(g)] = NewFrame(conc.stages)]
    /\ UNCHANGED <<reqvars, reg, rsp, cmb, eh>>

\* valk, err := decoderk(r, val1, .., val(k-1)) on goroutine g
ConcDecodeStage(g) ==
    /\ conc.design # "none"
    /\ conc.gs[g].pc = "stage"
    /\ LET k == conc.gs[g].k
           me == conc.gs[g]
           args == StageArgs(conc.frames[Frame(g)].vals, k)
       IN \E err \in {NoErr} \cup Errs :
            IF err = NoErr
            THEN conc' = [conc EXCEPT
                    !.frames[Frame(g)].vals[k] = Decoded(k, me.req),
                    !.gs[g] = [ConcAfterStage(g, k) EXCEPT
                                !.log = Append(@, Event("decode", k, args, Decoded(k, me.req),
                                                        NoErr, "decoder"))]]
            ELSE conc' = [conc EXCEPT
                    !.frames[Frame(g)].res = StageErrorResponder(conc.design, conc.hpipe, k, err),
                    !.gs[g] = [me EXCEPT
                                !.pc = "errorRendering",
                                !.log = @ \o <<Event("decode", k, args, NoVal, err, "decoder"),
                                               Event("errorHandler", k, <<>>, NoVal, err,
                                                     POptions(conc.hpipe).ContextErrorHandler)>>]]
    /\ UNCHANGED <<reqvars, reg, rsp, cmb, eh>>

\* input, err := inputDecoder(r) on goroutine g
ConcDecodeInput(g) ==
    /\ conc.design # "none"
    /\ conc.gs[g].pc = "input"
    /\ LET me == conc.gs[g]
           args == InputArgs(conc.frames[Frame(g)].vals)
       IN \E err \in {NoErr} \cup Errs :
            IF err = NoErr
            THEN conc' = [conc EXCEPT
                    !.frames[Frame(g)].input = Decoded(0, me.req),
                    !.gs[g] = [me EXCEPT
                                !.pc = "invoke",
                                !.log = Append(@, Event("input", conc.stages + 1, args,
                                                        Decoded(0, me.req), NoErr, "decoder"))]]
            ELSE conc' = [conc EXCEPT
                    !.frames[Frame(g)].res = InputErrorResponder(conc.design, conc.hpipe, err),
                    !.gs[g] = [me EXCEPT
                                !.pc = "errorRendering",
                                !.log = @ \o <<Event("input", conc.stages + 1, args, NoVal, err,
                                                     "decoder"),
                                               Event("errorHandler", 0, <<>>, NoVal, err,
                                                     POptions(conc.hpipe).InputErrorHandler)>>]]
    /\ UNCHANGED <<reqvars, reg, rsp, cmb, eh>>

\* ...ErrorHandler(..).Respond(w, r); return on goroutine g
ConcRenderError(g) ==
    /\ conc.design # "none"
    /\ conc.gs[g].pc = "errorRendering"
    /\ conc' = [conc EXCEPT
            !.gs[g] = [@ EXCEPT
                        !.pc = AfterErrorRender(conc.design, conc.stages, conc.gs[g].k),
                        !.w = Respond(conc.frames[Frame(g)].res, @),
                        !.log = Append(@, Event("render", 0, <<>>, NoVal, NoErr, "error"))]]
    /\ UNCHANGED <<reqvars, reg, rsp, cmb, eh>>

\* res := handler(ctx, val1, .., valN, input) on goroutine g
ConcCallHandler(g) ==
    /\ conc.design # "none"
    /\ conc.gs[g].pc = "invoke"
    /\ LET f == conc.frames[Frame(g)]
           args == HandlerArgs(conc.design, f.vals, f.input)
       IN \E ret \in {NilResponder, testResponder(<<"Success">> \o Strings(args))} :
            conc' = [conc EXCEPT
                !.frames[Frame(g)].res = ret,
                !.gs[g] = [@ EXCEPT
                            !.pc = "render",
                            !.log = Append(@, Event("handler", 0, args, NoVal, NoErr,
                                                    IF ret = NilResponder THEN "nil"
                                                    ELSE "responder"))]]
    /\ UNCHANGED <<reqvars, reg, rsp, cmb, eh>>

\* if res == nil { w.WriteHeader(http.StatusNoContent); return }; res.Respond(w, r)
ConcRender(g) ==
    /\ conc.design # "none"
    /\ conc.gs[g].pc = "render"
    /\ conc' = [conc EXCEPT
            !.gs[g] = [@ EXCEPT
                        !.pc = "done",
                        !.w = RenderResponse(conc.frames[Frame(g)].res, @),
                        !.log = Append(@, Event("render", 0, <<>>, NoVal, NoErr, "handler"))]]
    /\ UNCHANGED <<reqvars, reg, rsp, cmb, eh>>

\* the closure has returned on goroutine g
ConcReturn(g) ==
    /\ conc.design # "none"
    /\ conc.gs[g].pc = "done"
    /\ conc' = [conc EXCEPT !.gs[g] = IdleGoroutine]
    /\ UNCHANGED <<reqvars, reg, rsp, cmb, eh>>

ConcNext ==
    \E g \in Goroutines :
        \/ ConcServeHTTP(g)
        \/ ConcDecodeStage(g)
        \/ ConcDecodeInput(g)
        \/ ConcRenderError(g)
        \/ ConcCallHandler(g)
        \/ ConcRender(g)
        \/ ConcReturn(g)

SpecConc == ConcInit /\ [][ConcNext]_vars

\* ================================================================ FairSpec
\* A registered handler serving requests, every step of the closure taken
\* eventually: every decoder, the business handler and every Responder return.

\* the handler is registered: p was built with some arity and options and
\* HandlePipeline[WithInput]N (or Handle / HandleWithInput) has returned
Registered ==
    /\ design \in Designs
    /\ pc = "idle"
    /\ IF design \in PipelineDesigns
       THEN \E n \in 1..MaxArity, options \in RegOptionLists(MaxOptions) :
                /\ pipe = ConcPipeline(design, n, options)
                /\ nopts = Len(options)
       ELSE pipe = NoPipeline /\ nopts = 0
    /\ hpipe = HandlerPipeline(design, pipe)
    /\ Idle
    /\ reg = RegOff
    /\ conc = ConcOff
    /\ rsp = RspOff
    /\ cmb = CmbOff
    /\ eh = EhOff

ServeNext ==
    \/ ServeHTTP
    \/ DecodeStage
    \/ DecodeInput
    \/ RenderError
    \/ CallHandler
    \/ Render
    \/ Return

FairSpec ==
    /\ Registered
    /\ [][ServeNext]_vars
    /\ WF_vars(DecodeStage)
    /\ WF_vars(DecodeInput)
    /\ WF_vars(RenderError)
    /\ WF_vars(CallHandler)
    /\ WF_vars(Render)

\* ================================================================ SpecRespond
\* One responder of the response packages (jsonresp, plainresp, templresp,
\* downloadresp) is built with its constructor and its With* methods and then
\* rendered once against one http.ResponseWriter.

StatusCreated == 201
StatusInternalServerError == 500

\* cookies and header values a responder is configured with, at most
MaxCookies == 2
MaxHeaders == 2

\* the Write calls a sink can fail at: no Respond of the payloads below makes
\* more (two pieces or chunks and the fallback's body)
MaxWrites == 3

\* WithStatus calls on one responder, at most
MaxStatusCalls == 2

\* a decoder, component or reader that returns no error
NoFailure == -1

Cookies == {"c1", "c2"}
HeaderEntries ==
    {<<"X-Trace", "t1">>, <<"X-Trace", "t2">>, <<"Content-Type", "text/csv">>,
     <<"Content-Disposition", "form-data">>}
Statuses == {StatusCreated, StatusNoContent}
ErrorCodes == {StatusBadRequest, StatusInternalServerError}

\* ---------------------------------------------------------------- the sink
\* http.ResponseWriter: the header map, the status line and the body. The
\* first WriteHeader commits the status and the headers set so far; a Write on
\* an uncommitted sink commits 200 first. The sink fails at its failAt-th
\* Write (0: never): the status is committed, no byte is written, the error is
\* returned and every later Write fails too. logs holds what Respond handed to
\* the responder's logger.
SinkOp(op, key, val, code) == [op |-> op, key |-> key, val |-> val, code |-> code]

NewSink(failAt) ==
    [w |-> NewRecorder, ops |-> <<>>, header |-> <<>>, sent |-> <<>>,
     writes |-> 0, failAt |-> failAt, broken |-> FALSE, logs |-> <<>>]

\* w.Header().Add(key, value)
HeaderAdd(s, key, value) ==
    [s EXCEPT !.header = Append(@, <<key, value>>),
              !.ops = Append(@, SinkOp("Header.Add", key, value, 0))]

\* w.Header().Del(key)
HeaderDel(s, key) ==
    [s EXCEPT !.header = SelectSeq(@, LAMBDA e : e[1] # key)]

\* w.Header().Set(key, value) that keeps the values the key already has
HeaderSetKeepsValues(s, key, value) ==
    [s EXCEPT !.header = Append(@, <<key, value>>),
              !.ops = Append(@, SinkOp("Header.Set", key, value, 0))]

\* w.Header().Set(key, value)
HeaderSet(s, key, value) ==
    [s EXCEPT !.header = Append(SelectSeq(@, LAMBDA e : e[1] # key), <<key, value>>),
              !.ops = Append(@, SinkOp("Header.Set", key, value, 0))]

\* http.SetCookie(w, cookie): w.Header().Add("Set-Cookie", cookie.String())
SetCookie(s, cookie) ==
    [s EXCEPT !.header = Append(@, <<"Set-Cookie", cookie>>),
              !.ops = Append(@, SinkOp("SetCookie", "Set-Cookie", cookie, 0))]

\* w.WriteHeader(statusCode)
SinkWriteHeader(s, statusCode) ==
    [s EXCEPT !.w = WriteHeader(@, statusCode),
              !.sent = IF s.w.code = 0 THEN s.header ELSE @,
              !.ops = Append(@, SinkOp("WriteHeader", "", "", statusCode))]

\* w.Write(data); the error it returns is the broken flag of the result
SinkWrite(s, data) ==
    LET c == IF s.w.code = 0 THEN SinkWriteHeader(s, StatusOK) ELSE s
        fails == s.broken \/ s.writes + 1 = s.failAt
    IN  [c EXCEPT !.writes = @ + 1,
                  !.broken = fails,
                  !.w = IF fails THEN @ ELSE Write(@, data),
                  !.ops = Append(@, SinkOp(IF fails THEN "Write error" ELSE "Write", "", "", 0))]

\* http.Error(w, error, code)
httpError(s, error, code) ==
    SinkWrite(
        SinkWriteHeader(
            HeaderSet(
                HeaderSet(HeaderDel(s, "Content-Length"),
                          "Content-Type", "text/plain; charset=utf-8"),
                "X-Content-Type-Options", "nosniff"),
            code),
        <<error, "\n">>)

\* a responder built without WithLogger: res.logger == nil
NoLogger == "nil"

\* logger.Info / logger.Error that also writes the message to the response
LogToResponse(s, logger, level, msg) ==
    IF logger = NoLogger THEN s ELSE SinkWrite(s, <<msg>>)

\* if logger != nil { logger.Info(msg, ...) } and the same with logger.Error
Log(s, logger, level, msg) ==
    IF logger = NoLogger THEN s
    ELSE [s EXCEPT !.logs = Append(@, [level |-> level, msg |-> msg])]

\* httphandler.LogResponse(logger, statusCode, ...)
LogResponse(s, logger) == Log(s, logger, "info", "Sent HTTP response")

\* httphandler.LogRequestError(logger, err)
LogRequestError(s, logger) == Log(s, logger, "error", "Request error")

\* httphandler.WriteInternalServerError(w, logger, err, ...): the fallback to
\* the internal-error status, and the error handed to the logger
WriteInternalServerError(s, logger) ==
    Log(httpError(s, "Internal Server Error", StatusInternalServerError),
        logger, "error", "Internal server error")

\* ---------------------------------------------------------------- payloads
\* the values handed to the JSON responders: nil, a struct and a value
\* encoding/json cannot marshal (a channel)
JSONValues ==
    {[type |-> "nil", text |-> "null"],
     [type |-> "struct", text |-> "{\"id\":1}"],
     [type |-> "chan", text |-> ""]}

\* map[string]T{"error": errData}
ErrorMap(errData) == [type |-> "map", key |-> "error", elem |-> errData]

Marshalable(v) == IF v.type = "map" THEN v.elem.type # "chan" ELSE v.type # "chan"

JSONText(v) ==
    IF v.type = "map" THEN <<"{\"" \o v.key \o "\":", v.elem.text, "}">> ELSE <<v.text>>

\* json.NewEncoder(&buf).Encode(v): the JSON text and a newline, or an error
Encode(v) ==
    IF Marshalable(v)
    THEN [err |-> NoErr, buf |-> JSONText(v) \o <<"\n">>]
    ELSE [err |-> "json: unsupported type", buf |-> <<>>]

\* a templ component: the pieces Render writes, and the number of pieces
\* written before Render returns an error of its own
Html == <<"<h1>title", "</h1>">>
Components == {[html |-> Html, failAfter |-> k] : k \in {NoFailure} \cup (0..Len(Html))}

\* an io.Reader: the chunks Read returns, and the number of chunks read before
\* Read returns an error other than io.EOF
Chunks == {<<>>, <<"chunk1", "chunk2">>}
Readers ==
    UNION {{[chunks |-> c, failAfter |-> k] : k \in {NoFailure} \cup (0..Len(c))} : c \in Chunks}

Filenames == {"report.csv", "blob"}

\* filepath.Ext(filename)
Ext(filename) == IF filename = "report.csv" THEN ".csv" ELSE ""

\* mime.TypeByExtension(ext)
TypeByExtension(ext) == IF ext = ".csv" THEN "text/csv; charset=utf-8" ELSE ""

\* ---------------------------------------------------------------- constructors
\* jsonresp.Success(data)
Success(data) ==
    [kind |-> "jsonresp.success", statusCode |-> StatusOK, header |-> <<>>, cookies |-> <<>>,
     logger |-> NoLogger,
     data |-> data]

\* jsonresp.Error(err, errData, code)
jsonrespError(err, errData, code) ==
    [kind |-> "jsonresp.error", statusCode |-> code, header |-> <<>>, cookies |-> <<>>,
     logger |-> NoLogger,
     errData |-> errData, err |-> err]

\* plainresp.Error(err, body, code)
plainrespError(err, body, code) ==
    [kind |-> "plainresp.error", statusCode |-> code, header |-> <<>>, cookies |-> <<>>,
     logger |-> NoLogger,
     body |-> body, err |-> err]

\* templresp.Content(component)
Content(component) ==
    [kind |-> "templresp.content", statusCode |-> StatusOK, header |-> <<>>, cookies |-> <<>>,
     logger |-> NoLogger,
     component |-> component]

\* downloadresp.Attachment(reader, filename)
Attachment(reader, filename) ==
    [kind |-> "downloadresp.file", header |-> <<>>, cookies |-> <<>>, logger |-> NoLogger,
     reader |-> reader, filename |-> filename, disposition |-> "attachment"]

\* downloadresp.Inline(reader, filename)
Inline(reader, filename) ==
    [kind |-> "downloadresp.file", header |-> <<>>, cookies |-> <<>>, logger |-> NoLogger,
     reader |-> reader, filename |-> filename, disposition |-> "inline"]

NewResponders ==
    {Success(d) : d \in JSONValues}
        \cup {jsonrespError("e1", d, c) : d \in JSONValues, c \in ErrorCodes}
        \cup {plainrespError("e1", "bad request", c) : c \in ErrorCodes}
        \cup {Content(c) : c \in Components}
        \cup {Attachment(r, f) : r \in Readers, f \in Filenames}
        \cup {Inline(r, f) : r \in Readers, f \in Filenames}

\* ---------------------------------------------------------------- Respond
\* for _, cookie := range res.cookies { http.SetCookie(w, cookie) }
RECURSIVE SetCookies(_, _)
SetCookies(s, cookies) ==
    IF cookies = <<>> THEN s
    ELSE SetCookies(SetCookie(s, Head(cookies)), Tail(cookies))

\* the keys of an http.Header
Keys(header) == {header[i][1] : i \in DOMAIN header}

\* header[key]: the values of one key, in the order they were added
Values(header, key) == SelectSeq(header, LAMBDA e : e[1] = key)

\* header.Get(key): the first value of the key, or ""
Get(header, key) == IF Values(header, key) = <<>> THEN "" ELSE Values(header, key)[1][2]

\* the orders in which range can visit the keys of the map
KeyOrders(header) ==
    {o \in [1..Cardinality(Keys(header)) -> Keys(header)] :
        \A i, j \in DOMAIN o : i # j => o[i] # o[j]}

RECURSIVE AddEntries(_, _)
AddEntries(s, entries) ==
    IF entries = <<>> THEN s
    ELSE AddEntries(HeaderAdd(s, Head(entries)[1], Head(entries)[2]), Tail(entries))

\* for key, values := range res.header { for _, value := range values { w.Header().Add(key, value) } }
RECURSIVE AddHeaders(_, _, _)
AddHeaders(s, header, order) ==
    IF order = <<>> THEN s
    ELSE AddHeaders(AddEntries(s, Values(header, Head(order))), header, Tail(order))

\* the cookie loop and the header loop every Respond starts with
CookiesAndHeaders(s, resp, order) == AddHeaders(SetCookies(s, resp.cookies), resp.header, order)

\* writeJSON(w, v, status, logger)
writeJSON(s, v, status, logger) ==
    LET h == HeaderSet(s, "Content-Type", "application/json")
        enc == Encode(v)
    IN  IF enc.err # NoErr THEN WriteInternalServerError(h, logger)
        ELSE LET b == SinkWrite(SinkWriteHeader(h, status), enc.buf)
             IN  IF b.broken THEN WriteInternalServerError(b, logger) ELSE b

\* successResponder.Respond
successRespond(resp, s, order) ==
    LogResponse(
        writeJSON(CookiesAndHeaders(s, resp, order), resp.data, resp.statusCode, resp.logger),
        resp.logger)

\* jsonresp errorResponder.Respond
jsonErrorRespond(resp, s, order) ==
    LogRequestError(
        writeJSON(CookiesAndHeaders(s, resp, order), ErrorMap(resp.errData), resp.statusCode,
                  resp.logger),
        resp.logger)

\* plainresp errorResponder.Respond
plainErrorRespond(resp, s, order) ==
    LogRequestError(
        httpError(CookiesAndHeaders(s, resp, order), resp.body, resp.statusCode),
        resp.logger)

\* the pieces written one Write each, up to the first Write that fails
RECURSIVE WriteAll(_, _)
WriteAll(s, pieces) ==
    IF pieces = <<>> \/ s.broken THEN s
    ELSE WriteAll(SinkWrite(s, <<Head(pieces)>>), Tail(pieces))

\* what a source of pieces that fails after failAfter pieces gets written, and
\* the error returned: the sink's or its own
WritePieces(s, pieces, failAfter) ==
    LET n == IF failAfter = NoFailure \/ failAfter > Len(pieces) THEN Len(pieces) ELSE failAfter
        out == WriteAll(s, SubSeq(pieces, 1, n))
    IN  [w |-> out,
         err |-> IF out.broken THEN "write error"
                 ELSE IF n < Len(pieces) \/ failAfter = n THEN "source error"
                 ELSE NoErr]

\* res.component.Render(r.Context(), w)
componentRender(component, s) == WritePieces(s, component.html, component.failAfter)

\* contentResponder.Respond, the status written before the headers
contentRespondStatusFirst(resp, s, order) ==
    LET h == HeaderSet(CookiesAndHeaders(SinkWriteHeader(s, resp.statusCode), resp, order),
                       "Content-Type", "text/html; charset=utf-8")
        r == componentRender(resp.component, h)
    IN  IF r.err # NoErr THEN WriteInternalServerError(r.w, resp.logger)
        ELSE LogResponse(r.w, resp.logger)

\* contentResponder.Respond
contentRespond(resp, s, order) ==
    LET h == HeaderSet(CookiesAndHeaders(s, resp, order),
                       "Content-Type", "text/html; charset=utf-8")
        r == componentRender(resp.component, SinkWriteHeader(h, resp.statusCode))
    IN  IF r.err # NoErr THEN WriteInternalServerError(r.w, resp.logger)
        ELSE LogResponse(r.w, resp.logger)

\* io.Copy(w, res.reader)
ioCopy(s, reader) == WritePieces(s, reader.chunks, reader.failAfter)

\* fmt.Sprintf(`%s; filename="%s"`, res.disposition, res.filename)
ContentDisposition(resp) == resp.disposition \o "; filename=\"" \o resp.filename \o "\""

\* fileResponder.Respond
fileRespond(resp, s, order) ==
    LET h == CookiesAndHeaders(s, resp, order)
        contentType == IF TypeByExtension(Ext(resp.filename)) # ""
                       THEN TypeByExtension(Ext(resp.filename))
                       ELSE "application/octet-stream"
        t == IF Get(resp.header, "Content-Type") = ""
             THEN HeaderSet(h, "Content-Type", contentType) ELSE h
        d == HeaderSet(t, "Content-Disposition", ContentDisposition(resp))
        c == ioCopy(d, resp.reader)
    IN  IF c.err # NoErr
        THEN httpError(Log(c.w, resp.logger, "error", "Failed to write HTTP response"),
                       "Internal Server Error", StatusInternalServerError)
        ELSE Log(c.w, resp.logger, "info", "Sent HTTP response")

\* res.Respond(w, r), by the kind of res
RespondOf(resp, s, order) ==
    CASE resp.kind = "jsonresp.success" -> successRespond(resp, s, order)
      [] resp.kind = "jsonresp.error" -> jsonErrorRespond(resp, s, order)
      [] resp.kind = "plainresp.error" -> plainErrorRespond(resp, s, order)
      [] resp.kind = "templresp.content" -> contentRespond(resp, s, order)
      [] resp.kind = "downloadresp.file" -> fileRespond(resp, s, order)

\* ---------------------------------------------------------------- the program
RespondInit ==
    /\ design = "handle"
    /\ pc = "idle"
    /\ pipe = NoPipeline
    /\ hpipe = NoPipeline
    /\ nopts = 0
    /\ Idle
    /\ reg = RegOff
    /\ conc = ConcOff
    /\ rsp = [pc |-> "new"]
    /\ cmb = CmbOff
    /\ eh = EhOff

\* one of the constructors returns the responder
NewResponder ==
    /\ rsp.pc = "new"
    /\ \E resp \in NewResponders : rsp' = [pc |-> "built", res |-> resp, statuses |-> <<>>]
    /\ UNCHANGED <<reqvars, reg, conc, cmb, eh>>

\* res.statusCode = status, keeping the status of an earlier call
SetStatusOnce(resp, status, statuses) ==
    IF statuses = <<>> THEN [resp EXCEPT !.statusCode = status] ELSE resp

\* res.statusCode = status
SetStatus(resp, status, statuses) == [resp EXCEPT !.statusCode = status]

\* WithStatus(status) of successResponder and contentResponder; statuses keeps
\* the arguments of the calls made so far
WithStatus ==
    /\ rsp.pc = "built"
    /\ rsp.res.kind \in {"jsonresp.success", "templresp.content"}
    /\ Len(rsp.statuses) < MaxStatusCalls
    /\ \E status \in Statuses :
            rsp' = [rsp EXCEPT !.res = SetStatus(@, status, rsp.statuses),
                               !.statuses = Append(@, status)]
    /\ UNCHANGED <<reqvars, reg, conc, cmb, eh>>

\* WithHeader(key, value); WithContentType(contentType) of fileResponder is
\* WithHeader("Content-Type", contentType)
WithHeader ==
    /\ rsp.pc = "built"
    /\ Len(rsp.res.header) < MaxHeaders
    /\ \E e \in HeaderEntries : rsp' = [rsp EXCEPT !.res.header = Append(@, e)]
    /\ UNCHANGED <<reqvars, reg, conc, cmb, eh>>

\* WithCookie(cookie)
WithCookie ==
    /\ rsp.pc = "built"
    /\ Len(rsp.res.cookies) < MaxCookies
    /\ \E cookie \in Cookies : rsp' = [rsp EXCEPT !.res.cookies = Append(@, cookie)]
    /\ UNCHANGED <<reqvars, reg, conc, cmb, eh>>

\* WithLogger(logger)
WithLogger ==
    /\ rsp.pc = "built"
    /\ rsp' = [rsp EXCEPT !.res.logger = "logger"]
    /\ UNCHANGED <<reqvars, reg, conc, cmb, eh>>

\* the sinks a Respond call can be handed
Sinks == {NewSink(failAt) : failAt \in 0..MaxWrites}

\* res.Respond(w, r) has returned and left the sink as s, having visited the
\* keys of res.header in this order
Responded(s, order) ==
    /\ rsp' = [pc |-> "responded", res |-> rsp.res, statuses |-> rsp.statuses, s |-> s,
               order |-> order]
    /\ UNCHANGED <<reqvars, reg, conc, cmb, eh>>

SuccessRespond ==
    /\ rsp.pc = "built"
    /\ rsp.res.kind = "jsonresp.success"
    /\ \E s \in Sinks, order \in KeyOrders(rsp.res.header) :
            Responded(successRespond(rsp.res, s, order), order)

JSONErrorRespond ==
    /\ rsp.pc = "built"
    /\ rsp.res.kind = "jsonresp.error"
    /\ \E s \in Sinks, order \in KeyOrders(rsp.res.header) :
            Responded(jsonErrorRespond(rsp.res, s, order), order)

PlainErrorRespond ==
    /\ rsp.pc = "built"
    /\ rsp.res.kind = "plainresp.error"
    /\ \E s \in Sinks, order \in KeyOrders(rsp.res.header) :
            Responded(plainErrorRespond(rsp.res, s, order), order)

ContentRespond ==
    /\ rsp.pc = "built"
    /\ rsp.res.kind = "templresp.content"
    /\ \E s \in Sinks, order \in KeyOrders(rsp.res.header) :
            Responded(contentRespond(rsp.res, s, order), order)

FileRespond ==
    /\ rsp.pc = "built"
    /\ rsp.res.kind = "downloadresp.file"
    /\ \E s \in Sinks, order \in KeyOrders(rsp.res.header) :
            Responded(fileRespond(rsp.res, s, order), order)

RespondNext ==
    \/ NewResponder
    \/ WithStatus
    \/ WithHeader
    \/ WithCookie
    \/ WithLogger
    \/ SuccessRespond
    \/ JSONErrorRespond
    \/ PlainErrorRespond
    \/ ContentRespond
    \/ FileRespond

SpecRespond == RespondInit /\ [][RespondNext]_vars

\* ================================================================ SpecCombine
\* The decoder Combine2(decoder1, decoder2) returns, called on one request.

\* a decoder of the request: the value it returns, or the error
CombineDecoders ==
    {[name |-> n, err |-> e] : n \in {"header", "query", "path"}, e \in {NoErr} \cup Errs}

\* decoder(r)
CallDecoder(decoder, r) ==
    IF decoder.err # NoErr THEN [val |-> "zero", err |-> decoder.err]
    ELSE [val |-> [by |-> decoder.name, of |-> r], err |-> NoErr]

\* fmt.Errorf("decoderN error: %w", err)
Errorf(format, err) == [msg |-> format, wraps |-> err]

\* the nil error Combine2 returns
NilError == [msg |-> "nil", wraps |-> NoErr]

\* struct{ V1 T1; V2 T2 }{}
ZeroPair == [V1 |-> "zero", V2 |-> "zero"]

\* after decoder1 returned, decoder2 is called whatever the error
AfterDecoder1Always(err) == "decoder2"

\* if err != nil { return struct{..}{}, fmt.Errorf("decoder1 error: %w", err) }
AfterDecoder1(err) == IF err # NoErr THEN "returned" ELSE "decoder2"

CombineInit ==
    /\ design = "handle"
    /\ pc = "idle"
    /\ pipe = NoPipeline
    /\ hpipe = NoPipeline
    /\ nopts = 0
    /\ Idle
    /\ reg = RegOff
    /\ conc = ConcOff
    /\ rsp = RspOff
    /\ cmb = [pc |-> "idle"]
    /\ eh = EhOff

\* combinedDecoder := Combine2(decoder1, decoder2); combinedDecoder(r)
Combine2 ==
    /\ cmb.pc = "idle"
    /\ \E decoder1, decoder2 \in CombineDecoders, r \in Payloads :
            cmb' = [pc |-> "decoder1", decoder1 |-> decoder1, decoder2 |-> decoder2, r |-> r,
                    calls |-> <<>>, v1 |-> "zero", v2 |-> "zero",
                    result |-> ZeroPair, err |-> NilError]
    /\ UNCHANGED <<reqvars, reg, conc, rsp, eh>>

\* v1, err := decoder1(r)
CombineDecoder1 ==
    /\ cmb.pc = "decoder1"
    /\ LET ret == CallDecoder(cmb.decoder1, cmb.r)
       IN  cmb' = [cmb EXCEPT !.calls = Append(@, [decoder |-> 1, r |-> cmb.r]),
                              !.v1 = ret.val,
                              !.err = IF ret.err # NoErr
                                      THEN Errorf("decoder1 error: %w", ret.err) ELSE NilError,
                              !.pc = AfterDecoder1(ret.err)]
    /\ UNCHANGED <<reqvars, reg, conc, rsp, eh>>

\* v2, err := decoder2(r); the struct of both values when it is nil
CombineDecoder2 ==
    /\ cmb.pc = "decoder2"
    /\ LET ret == CallDecoder(cmb.decoder2, cmb.r)
       IN  cmb' = [cmb EXCEPT !.calls = Append(@, [decoder |-> 2, r |-> cmb.r]),
                              !.v2 = ret.val,
                              !.err = IF ret.err # NoErr
                                      THEN Errorf("decoder2 error: %w", ret.err) ELSE NilError,
                              !.result = IF ret.err # NoErr THEN ZeroPair
                                         ELSE [V1 |-> cmb.v1, V2 |-> ret.val],
                              !.pc = "returned"]
    /\ UNCHANGED <<reqvars, reg, conc, rsp, eh>>

\* the caller has the result; the combined decoder can be called again
CombineDone ==
    /\ cmb.pc = "returned"
    /\ cmb' = [pc |-> "idle"]
    /\ UNCHANGED <<reqvars, reg, conc, rsp, eh>>

CombineNext ==
    \/ Combine2
    \/ CombineDecoder1
    \/ CombineDecoder2
    \/ CombineDone

SpecCombine == CombineInit /\ [][CombineNext]_vars

\* ================================================================ error helpers
\* handleContextError and handleInputError of pipeline_handlers.go applied to a
\* PipelineOptions value: the options a flat NewPipelineWithInputN stores
\* (PipelineOptions{} with the given options applied) or those of a pipeline
\* constructor (defaultOptions() with the given options applied).
HelperOptions ==
    {ApplyOptions(l, base) : l \in OptionLists(MaxOptions), base \in {EmptyOptions, defaultOptions}}

FallbackInit ==
    /\ design = "handle"
    /\ pc = "idle"
    /\ pipe = NoPipeline
    /\ hpipe = NoPipeline
    /\ nopts = 0
    /\ Idle
    /\ reg = RegOff
    /\ conc = ConcOff
    /\ rsp = RspOff
    /\ cmb = CmbOff
    /\ \E options \in HelperOptions : eh = [pc |-> "idle", options |-> options]

\* responder := handleContextError(&pipeline.options, stage, err)
HandleContextError ==
    /\ eh.pc = "idle"
    /\ \E stage \in 1..MaxArity, err \in Errs :
        eh' = [pc |-> "returned", options |-> eh.options, fn |-> "handleContextError",
               handler |-> eh.options.ContextErrorHandler, stage |-> stage, err |-> err,
               ret |-> handleContextError(eh.options, stage, err), w |-> NewRecorder]
    /\ UNCHANGED <<reqvars, reg, conc, rsp, cmb>>

\* responder := handleInputError(&pipeline.options, err)
HandleInputError ==
    /\ eh.pc = "idle"
    /\ \E err \in Errs :
        eh' = [pc |-> "returned", options |-> eh.options, fn |-> "handleInputError",
               handler |-> eh.options.InputErrorHandler, stage |-> 0, err |-> err,
               ret |-> handleInputError(eh.options, err), w |-> NewRecorder]
    /\ UNCHANGED <<reqvars, reg, conc, rsp, cmb>>

\* responder.Respond(w, r)
FallbackRespond ==
    /\ eh.pc = "returned"
    /\ eh' = [eh EXCEPT !.pc = "responded", !.w = Respond(eh.ret, eh.w)]
    /\ UNCHANGED <<reqvars, reg, conc, rsp, cmb>>

FallbackNext ==
    \/ HandleContextError
    \/ HandleInputError
    \/ FallbackRespond

SpecFallback == FallbackInit /\ [][FallbackNext]_vars

\* ================================================================ properties
\* positions of the log that hold an event of kind ev
Calls(ev) == {i \in DOMAIN log : log[i].ev = ev}

\* positions of the log where a decoder (stage or input) returned an error
FailedCalls == {i \in DOMAIN log : log[i].ev \in {"decode", "input"} /\ log[i].err # NoErr}

\* the request is served by a HandlePipelineWithInputN / HandlePipelineN closure
PipelineRequest == design \in PipelineDesigns /\ req # "none"

\* C1: once the decoder of a stage k has returned an error, the request sees no
\* further stage decoder call, no input decoder call and no business handler
\* call (so no decoded value reaches the handler).
C1_ShortCircuit ==
    PipelineRequest =>
        \A i \in Calls("decode") :
            log[i].err # NoErr =>
                /\ \A j \in DOMAIN log : j > i => log[j].ev \notin {"decode", "input", "handler"}
                /\ Calls("input") = {}
                /\ Calls("handler") = {}

\* C1 witness: an arity-8 pipeline whose stage 4 failed after three values were
\* decoded, and the request is finished.
C1_Witness ==
    /\ PipelineRequest
    /\ pc = "done"
    /\ Stages = MaxArity
    /\ Len(vals) = 3
    /\ \E i \in Calls("decode") : log[i].stage = 4 /\ log[i].err # NoErr

\* the values the decoders called so far have returned, in call order
RECURSIVE Returned(_)
Returned(l) ==
    IF l = <<>> THEN <<>>
    ELSE IF Head(l).ev \in {"decode", "input"} /\ Head(l).err = NoErr
         THEN <<Head(l).val>> \o Returned(Tail(l))
         ELSE Returned(Tail(l))

\* C2: with an input decoder, the business handler is called with exactly the
\* values the N stage decoders returned, in stage order 1..N, followed by the
\* value the input decoder returned.
C2_SequentialAccumulation ==
    (PipelineRequest /\ design \in InputDesigns) =>
        \A h \in Calls("handler") :
            /\ h = Stages + 2
            /\ \A k \in 1..Stages :
                /\ log[k].ev = "decode" /\ log[k].stage = k /\ log[k].err = NoErr
                /\ log[h].args[k] = log[k].val
            /\ log[Stages + 1].ev = "input" /\ log[Stages + 1].err = NoErr
            /\ log[h].args[Stages + 1] = log[Stages + 1].val
            /\ Len(log[h].args) = Stages + 1
            /\ log[h].args = Returned(SubSeq(log, 1, h - 1))

\* C2 witness: the handler of an arity-8 pipeline with input has been called.
C2_Witness ==
    /\ PipelineRequest
    /\ design \in InputDesigns
    /\ Stages = MaxArity
    /\ Calls("handler") # {}
    /\ pc = "done"

\* C3: when the pipeline p was constructed with a custom stage-error handler and
\* the stage-k decoder fails, that handler is called with (k, err) and the
\* Responder it returns is the one rendered.
C3_ErrorPolicyOverride ==
    (PipelineRequest /\ POptions(pipe).ContextErrorHandler \in CustomContextHandlers) =>
        \A i \in Calls("decode") :
            log[i].err # NoErr =>
                /\ log[i + 1] = Event("errorHandler", log[i].stage, <<>>, NoVal, log[i].err,
                                      POptions(pipe).ContextErrorHandler)
                /\ res = CustomContextErrorHandler(POptions(pipe).ContextErrorHandler,
                                                   log[i].stage, log[i].err)
                /\ (pc = "done" => w = Respond(res, NewRecorder))

\* C4: when all N stages succeeded and the input decoder fails, the business
\* handler is not called and the response is the Responder of the pipeline's
\* input-error handler (the default one, or the one given with
\* WithInputErrorHandler) applied to the error.
C4_InputDecodeFailure ==
    (PipelineRequest /\ design \in InputDesigns) =>
        \A i \in Calls("input") :
            log[i].err # NoErr =>
                /\ i = Stages + 1
                /\ \A k \in 1..Stages : log[k].ev = "decode" /\ log[k].err = NoErr
                /\ Calls("handler") = {}
                /\ res = CallInputErrorHandler(POptions(pipe), log[i].err)
                /\ (pc = "done" => w = Respond(res, NewRecorder))

\* the body written holds the text s
Contains(body, s) == \E j \in DOMAIN body : body[j] = s

\* C5: with no custom error handler anywhere, a failed stage k is answered with
\* status 400 and a body holding the stage index k and the decoder's error
\* text; a failed input decode with status 400 and a body holding the error text.
C5_DefaultErrorPolicy ==
    (PipelineRequest /\ nopts = 0 /\ pc = "done") =>
        \A i \in FailedCalls :
            /\ w.code = StatusBadRequest
            /\ Contains(w.body, log[i].err)
            /\ (log[i].ev = "decode" => Contains(w.body, ToString(log[i].stage)))

\* the business handler of this request returned a nil Responder and the closure returned
NilResult == pc = "done" /\ Calls("handler") # {} /\ res = NilResponder

\* C6: in Handle, HandleWithInput, HandlePipelineN and HandlePipelineWithInputN,
\* when the business handler returns a nil Responder the response is status 204
\* with an empty body, written by a single WriteHeader call and nothing else.
C6_NilMeansNoContent ==
    /\ NilResult =>
        w = [code |-> StatusNoContent, body |-> <<>>, writeHeaderCalls |-> 1]
    /\ (pc = "render" /\ res = NilResponder) => w = NewRecorder

\* C6 witness: the handler of an arity-8 input-as-stage pipeline returned nil
\* and the closure has returned.
C6_Witness == NilResult /\ design = "flat" /\ Stages = MaxArity

\* the render event the path of this request calls for
ExpectedRender ==
    IF FailedCalls # {} THEN "error"
    ELSE IF res = NilResponder THEN "noContent" ELSE "responder"

\* C7: a request served by a pipeline entry point gets exactly one render
\* action, exactly once, on every path: the stage-error Responder, the
\* input-error Responder, the 204 status write or the handler's Responder.
\* Nothing is written before it and the header is written once.
C7_ExactlyOneRender ==
    PipelineRequest =>
        /\ Cardinality(Calls("render")) <= 1
        /\ w.writeHeaderCalls <= 1
        /\ pc # "done" => (Calls("render") = {} /\ w = NewRecorder)
        /\ pc = "done" =>
            /\ Cardinality(Calls("render")) = 1
            /\ \A i \in Calls("render") : i = Len(log) /\ log[i].h = ExpectedRender
            /\ w.writeHeaderCalls = 1
            /\ w.code # 0

\* C7 witness: a finished request whose handler returned a non-nil Responder.
C7_Witness ==
    /\ PipelineRequest
    /\ pc = "done"
    /\ Stages = 2
    /\ res.kind = "testResponder"
    /\ Calls("render") # {}

\* C8: within one request the calls are: stage 1, .., stage N, input decode,
\* handler, render, each at most once; stage k+1 is called only after stage k
\* returned without error; an error handler is called, and its Responder
\* rendered, only directly after a failed stage or input decode, and nothing
\* runs after a render.  An arity-1 pipeline runs one stage before the input.
C8_StrictOrdering ==
    PipelineRequest =>
        LET m == Cardinality(Calls("decode"))
            hpos == IF design \in InputDesigns THEN Stages + 2 ELSE Stages + 1
        IN /\ Calls("decode") = 1..m
           /\ m <= Stages
           /\ \A i \in 1..m : log[i].stage = i /\ (i < m => log[i].err = NoErr)
           /\ \A i \in Calls("input") :
                /\ design \in InputDesigns
                /\ i = Stages + 1
                /\ m = Stages
                /\ log[m].err = NoErr
           /\ \A i \in Calls("handler") :
                /\ i = hpos
                /\ FailedCalls = {}
                /\ m = Stages
                /\ design \in InputDesigns => log[i - 1].ev = "input"
           /\ \A i \in Calls("errorHandler") :
                /\ i > 1
                /\ i - 1 \in FailedCalls
                /\ log[i].err = log[i - 1].err
                /\ log[i - 1].ev = "decode" => log[i].stage = log[i - 1].stage
           /\ \A i \in FailedCalls : i + 1 \in Calls("errorHandler")
           /\ \A i \in Calls("render") :
                /\ i = Len(log)
                /\ i > 1
                /\ log[i].h = "error" <=> log[i - 1].ev = "errorHandler"
                /\ log[i].h # "error" <=> log[i - 1].ev = "handler"
           /\ \A i \in DOMAIN log :
                log[i].ev \in {"decode", "input", "handler", "errorHandler", "render"}

\* C8 witness: an arity-1 pipeline with input ran its single stage, the input
\* decoder and the handler, rendered, and returned.
C8_Witness ==
    /\ PipelineRequest
    /\ design \in InputDesigns
    /\ Stages = 1
    /\ pc = "done"
    /\ Len(log) = 4
    /\ log[1].ev = "decode" /\ log[2].ev = "input" /\ log[3].ev = "handler"
    /\ log[4].ev = "render"

\* C9: the stage-k decoder is called with the request and exactly the k-1
\* values stages 1..k-1 returned in this request, argument i being the value
\* of stage i; stage 1 is called with the request only.
C9_StageInputs ==
    PipelineRequest =>
        \A i \in Calls("decode") :
            LET k == log[i].stage
            IN /\ Len(log[i].args) = k - 1
               /\ \A j \in 1..(k - 1) :
                    /\ log[j].ev = "decode" /\ log[j].stage = j /\ log[j].err = NoErr
                    /\ log[i].args[j] = log[j].val
               /\ log[i].args = Returned(SubSeq(log, 1, i - 1))

\* C9 witness: stage 8 of an arity-8 pipeline was called with seven values.
C9_Witness ==
    /\ PipelineRequest
    /\ Stages = MaxArity
    /\ \E i \in Calls("decode") : log[i].stage = MaxArity /\ Len(log[i].args) = MaxArity - 1

\* C10: a pipeline obtained by extending p without options (NewPipeline(k+1) in
\* the chained design, or the input-stage pipeline HandlePipelineWithInputN
\* builds from p) has p's stage-error and input-error handlers; an option
\* passed at extension replaces the handler it names and leaves the other.
C10_PolicyInheritance ==
    /\ (design \in ChainedDesigns /\ pc # "new") =>
        /\ POptions(NewPipelineN(pipe, <<>>)) = POptions(pipe)
        /\ \A o \in Options :
            LET q == POptions(NewPipelineN(pipe, <<o>>))
            IN /\ q[o.field] = o.handler
               /\ \A f \in Fields \ {o.field} : q[f] = POptions(pipe)[f]
        /\ nopts = 0 => \A i \in DOMAIN pipe.levels : pipe.levels[i] = defaultOptions
    /\ (design \in {"chained", "flat"} /\ pc \notin {"new", "building"}) =>
        POptions(hpipe) = POptions(pipe)

\* the single option passed over the construction of p is a stage-error handler
OnlyContextErrorHandler ==
    nopts = 1 /\ POptions(pipe).ContextErrorHandler \in CustomContextHandlers

\* the single option passed over the construction of p is an input-error handler
OnlyInputErrorHandler ==
    nopts = 1 /\ POptions(pipe).InputErrorHandler \in CustomInputHandlers

\* C11: when only a stage-error handler was supplied, a failed input decode is
\* still answered by the default (400 with the input error text); when only an
\* input-error handler was supplied, a failed stage k is still answered by the
\* default (400 with the stage index k and the error text).
C11_IndependentOverride ==
    (PipelineRequest /\ pc = "done") =>
        /\ OnlyContextErrorHandler =>
            /\ POptions(pipe).InputErrorHandler = "default"
            /\ \A i \in Calls("input") :
                log[i].err # NoErr =>
                    w.code = StatusBadRequest /\ Contains(w.body, log[i].err)
        /\ OnlyInputErrorHandler =>
            /\ POptions(pipe).ContextErrorHandler = "default"
            /\ \A i \in Calls("decode") :
                log[i].err # NoErr =>
                    /\ w.code = StatusBadRequest
                    /\ Contains(w.body, log[i].err)
                    /\ Contains(w.body, ToString(log[i].stage))

\* a registration program is running
Registering == reg.design # "none"

\* the response handler h of the registration gives to a request with outcome o
HandlerResponse(h, o) ==
    ServeResponse(reg.design, reg.handlers[h].pipeline, reg.handlers[h].stages, o)

\* the pipeline variable handler h was built from
BaseOf(h) == reg.pipes[reg.handlers[h].from]

\* C12: a pipeline value is never modified once built: extending it with new
\* options, building handlers from it and serving requests leave it as its
\* constructor returned it, and a handler built from it (before or after the
\* extension) uses the error policy the pipeline was built with.
C12_Immutability ==
    Registering =>
        /\ \A i \in DOMAIN reg.pipes : reg.pipes[i].value = reg.pipes[i].built
        /\ \A h \in DOMAIN reg.handlers :
            POptions(reg.handlers[h].pipeline) = POptions(BaseOf(h).built)
        /\ reg.last # NoResponse =>
            LET o == reg.last.o
                base == BaseOf(reg.last.h).built
            IN /\ o.failAt \in 1..base.arity =>
                    reg.last.w = Respond(CallContextErrorHandler(POptions(base), o.failAt, o.err),
                                         NewRecorder)
               /\ o.failAt = base.arity + 1 =>
                    reg.last.w = Respond(CallInputErrorHandler(POptions(base), o.err),
                                         NewRecorder)

\* C13: two pipelines constructed separately from the same decoders and the
\* same options, and the handlers built from them, answer every request and
\* every combination of decoder outcomes alike, also after requests were
\* served and other pipelines were constructed in between.
C13_IdempotentConstruction ==
    Registering =>
        /\ \A i, j \in DOMAIN reg.pipes :
            (i < j /\ reg.pipes[i].recipe = reg.pipes[j].recipe) =>
                reg.pipes[i].value = reg.pipes[j].value
        /\ \A g, h \in DOMAIN reg.handlers :
            (g # h /\ BaseOf(g).recipe = BaseOf(h).recipe) =>
                /\ g < h =>
                    \A o \in Outcomes(reg.design, reg.handlers[g].stages) :
                        HandlerResponse(g, o) = HandlerResponse(h, o)
                /\ (reg.last # NoResponse /\ reg.last.h = g) =>
                    reg.last.w = HandlerResponse(h, reg.last.o)

\* C13 witness: two handlers built from two separately constructed pipelines
\* with the same custom option, a pipeline with other options constructed
\* between them, and a failed request served by the first handler.
C13_Witness ==
    /\ Registering
    /\ Len(reg.pipes) = 3
    /\ reg.pipes[1].recipe = reg.pipes[3].recipe
    /\ reg.pipes[2].recipe # reg.pipes[1].recipe
    /\ reg.pipes[1].recipe.lists[1] # <<>>
    /\ Len(reg.handlers) = 2
    /\ reg.handlers[1].from = 1
    /\ reg.handlers[2].from = 3
    /\ reg.last # NoResponse
    /\ reg.last.h = 1
    /\ reg.last.o.failAt = 1

\* a handler is serving concurrent requests
Serving == conc.design # "none"

\* the outcome of the request of goroutine g, read from its own call log
OutcomeOf(g) ==
    LET l == conc.gs[g].log
        failed == {i \in DOMAIN l : l[i].ev \in {"decode", "input"} /\ l[i].err # NoErr}
        called == {i \in DOMAIN l : l[i].ev = "handler"}
    IN IF failed # {}
       THEN LET i == CHOOSE x \in failed : TRUE
            IN [failAt |-> l[i].stage, err |-> l[i].err, nilRes |-> FALSE, req |-> conc.gs[g].req]
       ELSE [failAt |-> 0, err |-> NoErr,
             nilRes |-> \E i \in called : l[i].h = "nil", req |-> conc.gs[g].req]

\* C14: when several requests are served concurrently by one handler, under
\* every interleaving each request's stage decoders and business handler get
\* only values decoded from that request, and each request gets the response
\* it would get if it were served alone.
C14_RequestIsolation ==
    Serving =>
        \A g \in Goroutines :
            LET me == conc.gs[g]
                l == me.log
            IN /\ \A i \in DOMAIN l :
                    /\ l[i].ev = "decode" =>
                        /\ Len(l[i].args) = l[i].stage - 1
                        /\ \A j \in DOMAIN l[i].args : l[i].args[j] = Decoded(j, me.req)
                    /\ l[i].ev = "handler" =>
                        /\ Len(l[i].args)
                            = conc.stages + (IF conc.design \in InputDesigns THEN 1 ELSE 0)
                        /\ \A j \in 1..conc.stages : l[i].args[j] = Decoded(j, me.req)
                        /\ conc.design \in InputDesigns =>
                            l[i].args[conc.stages + 1] = Decoded(0, me.req)
               /\ me.pc = "done" =>
                    me.w = ServeResponse(conc.design, conc.hpipe, conc.stages, OutcomeOf(g))

\* C14 witness: two requests with different payloads are in flight in an
\* arity-3 handler; one has finished with its handler's Responder while the
\* other has decoded two stages.
C14_Witness ==
    /\ Serving
    /\ conc.stages = 3
    /\ conc.gs["g1"].req = "r1"
    /\ conc.gs["g2"].req = "r2"
    /\ conc.gs["g1"].pc = "stage"
    /\ conc.gs["g1"].k = 3
    /\ conc.gs["g2"].pc = "done"
    /\ \E i \in DOMAIN conc.gs["g2"].log : conc.gs["g2"].log[i].h = "responder"

\* C15: a decoder failure (stage or input) never crashes the worker: the error
\* policy turns it into a Responder, that Responder is rendered, and the
\* failure is terminal: the failed decoder is not called again and no later
\* decoder or the handler runs.
C15_FailureNeverCrashes ==
    PipelineRequest =>
        /\ res.kind # "panic"
        /\ Cardinality(FailedCalls) <= 1
        /\ \A i \in FailedCalls :
            /\ i + 1 \in Calls("errorHandler")
            /\ \A j \in DOMAIN log : j > i => log[j].ev \in {"errorHandler", "render"}
            /\ res.kind \in {"errorResponse", "ResponderFunc", "customErrorResponder"}
            /\ pc \in {"errorRendering", "done"}
            /\ pc = "done" =>
                /\ w = Respond(res, NewRecorder)
                /\ w.code # 0
                /\ log[Len(log)].ev = "render"

\* C15 witness: the input-as-stage handler, whose inner pipeline has nil error
\* handlers, answered a failed stage 2 with a rendered Responder.
C15_Witness ==
    /\ PipelineRequest
    /\ design = "flat"
    /\ POptions(hpipe).ContextErrorHandler = "nil"
    /\ pc = "done"
    /\ \E i \in FailedCalls : log[i].ev = "decode" /\ log[i].stage = 2
    /\ w.code = StatusBadRequest

\* decoder calls of this request that the pipeline's arity does not allow:
\* more than N stage calls, more than one input call, a stage called twice,
\* or any decoder call after a failed one
ExcessCalls ==
    \/ Cardinality(Calls("decode")) > Stages
    \/ Cardinality(Calls("input")) > 1
    \/ \E i, j \in Calls("decode") : i < j /\ log[i].stage = log[j].stage
    \/ \E i \in FailedCalls : \E j \in Calls("decode") \cup Calls("input") : j > i

\* C16: every request handled by a pipeline entry point of arity N completes,
\* after at most N stage-decoder calls and at most one input-decoder call, and
\* with no decoder call after a failed one.
C16_Termination ==
    /\ PipelineRequest ~> (pc = "done" /\ ~ExcessCalls)
    /\ [](PipelineRequest => ~ExcessCalls)

\* C16 witness: an arity-8 request completed after eight stage calls and one
\* input call.
C16_Witness ==
    /\ PipelineRequest
    /\ pc = "done"
    /\ Cardinality(Calls("decode")) = MaxArity
    /\ Cardinality(Calls("input")) = 1

\* the request arrived with a context that was cancelled before stage 1
Cancelled == ctx.of = "cancelled context"

\* C17: the business handler receives the request's own context, and the
\* wrapper never looks at cancellation: a request whose context is cancelled
\* before stage 1 still runs stage 1..N, the input decoder and the handler, in
\* order, as long as the decoders succeed.
C17_CancellationForwarded ==
    PipelineRequest =>
        /\ \A h \in Calls("handler") : log[h].val = ctx
        /\ (Cancelled /\ pc = "done" /\ FailedCalls = {}) =>
            /\ \A k \in 1..Stages : log[k].ev = "decode" /\ log[k].stage = k
            /\ design \in InputDesigns => log[Stages + 1].ev = "input"
            /\ Calls("handler") # {}
        /\ (Cancelled /\ pc = "stage") => ENABLED DecodeStage

\* ---------------------------------------------------------------- responders
\* Respond has returned
RespondReturned == rsp.pc = "responded"

\* positions of the sink's trace that hold an operation op
OpsAt(op) == {i \in DOMAIN rsp.s.ops : rsp.s.ops[i].op = op}

\* the number of operations op of the trace made with this key and value
OpCount(op, key, val) ==
    Cardinality({i \in OpsAt(op) : rsp.s.ops[i].key = key /\ rsp.s.ops[i].val = val})

\* the number of times the entry is in the header the responder was built with
EntryCount(header, e) == Cardinality({i \in DOMAIN header : header[i] = e})

\* C18: for every responder kind (JSON success, JSON error, plain-text error,
\* template content, file download) one Respond call sets every configured
\* cookie and every configured header value before the status line is written
\* (explicitly, or by the first Write), and the status line is written before
\* the first body byte.
C18_WriteOrdering ==
    RespondReturned =>
        /\ \A c \in Cookies :
               OpCount("SetCookie", "Set-Cookie", c) = EntryCount(rsp.res.cookies, c)
        /\ \A e \in HeaderEntries :
               OpCount("Header.Add", e[1], e[2]) = EntryCount(rsp.res.header, e)
        /\ \A i \in OpsAt("SetCookie") \cup OpsAt("Header.Add"), j \in OpsAt("WriteHeader") : i < j
        /\ \A i \in OpsAt("Write") : \E j \in OpsAt("WriteHeader") : j < i

\* a template responder with a cookie and a header has written them, the status
\* and the whole body
C18_Witness ==
    /\ RespondReturned
    /\ rsp.res.kind = "templresp.content"
    /\ rsp.res.cookies # <<>>
    /\ rsp.res.header # <<>>
    /\ rsp.s.w.body = Html
    /\ OpsAt("WriteHeader") # {}

\* the body the responder was built to send
IntendedBody ==
    CASE rsp.res.kind = "jsonresp.success" -> Encode(rsp.res.data).buf
      [] rsp.res.kind = "jsonresp.error" -> Encode(ErrorMap(rsp.res.errData)).buf
      [] rsp.res.kind = "plainresp.error" -> <<rsp.res.body, "\n">>
      [] rsp.res.kind = "templresp.content" -> rsp.res.component.html
      [] rsp.res.kind = "downloadresp.file" -> rsp.res.reader.chunks

\* json Encode, the component's Render or the reader of io.Copy returned an error
SerializationFailed ==
    CASE rsp.res.kind = "jsonresp.success" -> Encode(rsp.res.data).err # NoErr
      [] rsp.res.kind = "jsonresp.error" -> Encode(ErrorMap(rsp.res.errData)).err # NoErr
      [] rsp.res.kind = "plainresp.error" -> FALSE
      [] rsp.res.kind = "templresp.content" -> rsp.res.component.failAfter # NoFailure
      [] rsp.res.kind = "downloadresp.file" ->
            /\ rsp.res.reader.failAfter # NoFailure
            /\ rsp.res.reader.failAfter <= Len(rsp.res.reader.chunks)

\* a Write of the intended body returned an error to writeJSON, Render or io.Copy
BodyWriteFailed == rsp.res.kind # "plainresp.error" /\ rsp.s.broken

\* the response starts with bytes of the intended body
PartialBody ==
    /\ rsp.s.w.body # <<>>
    /\ IntendedBody # <<>>
    /\ rsp.s.w.body[1] = IntendedBody[1]

\* C19: when serialization (JSON encoding, template Render, file copy) or the
\* body write fails during Respond, the response carries status 500 and no part
\* of the intended body.
C19_RenderFailureFallback ==
    (RespondReturned /\ (SerializationFailed \/ BodyWriteFailed)) =>
        /\ rsp.s.w.code = StatusInternalServerError
        /\ ~PartialBody

\* C20: in one Respond call of any responder the status line is written
\* exactly once on every path, the paths where encoding, rendering or the body
\* write fails included: WriteHeader runs once, explicitly or through the first
\* Write.
C20_StatusWrittenOnce ==
    RespondReturned => Cardinality(OpsAt("WriteHeader")) = 1

\* the headers of the response: those committed with the status line, or the
\* header map when Respond returned before any status was written
ResponseHeader == IF rsp.s.w.code = 0 THEN rsp.s.header ELSE rsp.s.sent

\* the values of one key of the response's headers
ResponseValues(key) ==
    LET es == Values(ResponseHeader, key) IN [i \in DOMAIN es |-> es[i][2]]

\* the values the responder was configured with for one key
ConfiguredValues(key) ==
    LET es == Values(rsp.res.header, key) IN [i \in DOMAIN es |-> es[i][2]]

ConfiguredStatus ==
    IF rsp.statuses # <<>> THEN rsp.statuses[Len(rsp.statuses)] ELSE StatusOK

\* the number of times a value is in a sequence of values
ValueCount(values, v) == Cardinality({i \in DOMAIN values : values[i] = v})

\* the response has every value the responder was configured with for the key
KeepsValues(key) ==
    \A e \in HeaderEntries :
        e[1] = key =>
            ValueCount(ResponseValues(key), e[2]) >= ValueCount(ConfiguredValues(key), e[2])

\* the header keys Respond of the kind sets itself, after the configured ones
OwnKeys ==
    IF rsp.res.kind = "downloadresp.file" THEN {"Content-Disposition"} ELSE {"Content-Type"}

C23_ErrorBody ==
    (/\ RespondReturned
     /\ rsp.res.kind = "jsonresp.error"
     /\ ~SerializationFailed
     /\ ~BodyWriteFailed) =>
        /\ rsp.s.w.code = rsp.res.statusCode
        /\ rsp.s.w.body = Encode(rsp.res.errData).buf
        /\ \A i \in DOMAIN rsp.s.w.body : rsp.s.w.body[i] # rsp.res.err

\* what Respond left on the response: everything but the logger's records
Observable(s) == [s EXCEPT !.logs = <<>>]

\* C24: Respond with a logger attached writes the same status, headers,
\* cookies and body, and takes the same success or failure path (the same
\* operations on the sink in the same order), as Respond of the same responder
\* without a logger on the same sink.
C24_LoggingObservational ==
    RespondReturned =>
        Observable(rsp.s) =
            Observable(RespondOf([rsp.res EXCEPT !.logger = NoLogger],
                                 NewSink(rsp.s.failAt), rsp.order))

\* a file responder with a logger has logged the failure of its copy
C24_Witness ==
    /\ RespondReturned
    /\ rsp.res.kind = "downloadresp.file"
    /\ rsp.res.logger # NoLogger
    /\ SerializationFailed
    /\ rsp.s.logs # <<>>
    /\ rsp.s.w.code = StatusInternalServerError

\* ---------------------------------------------------------------- HandleWithInput, Combine, designs
\* C25: in HandleWithInput, when the input decode function returns an error
\* the handler function is not called and the response is status 400 with body
\* "Invalid request payload\n"; when decoding succeeds the handler is called
\* exactly once, with exactly the decoded value.
C25_HandleWithInput ==
    design = "handleinput" =>
        /\ Cardinality(Calls("handler")) <= 1
        /\ \A i \in Calls("input") :
               log[i].err # NoErr =>
                   /\ Calls("handler") = {}
                   /\ pc = "done" =>
                          w = [code |-> StatusBadRequest,
                               body |-> <<"Invalid request payload", "\n">>,
                               writeHeaderCalls |-> 1]
        /\ \A i \in Calls("input") :
               (log[i].err = NoErr /\ pc \in {"render", "done"}) =>
                   /\ Cardinality(Calls("handler")) = 1
                   /\ \A h \in Calls("handler") : h > i /\ log[h].args = <<log[i].val>>

\* a HandleWithInput request whose decode failed has been answered
C25_Witness ==
    /\ design = "handleinput"
    /\ pc = "done"
    /\ FailedCalls # {}
    /\ w.code = StatusBadRequest

\* C26: Combine2(d1, d2) runs d1 and then d2 on the same request. If d1 fails
\* d2 is not invoked and the result is an error wrapping d1's error; if d1
\* succeeds and d2 fails the result is an error wrapping d2's error; only when
\* both succeed is the result V1 = d1's value, V2 = d2's value and a nil error.
C26_Combine2 ==
    cmb.pc = "returned" =>
        LET r1 == CallDecoder(cmb.decoder1, cmb.r)
            r2 == CallDecoder(cmb.decoder2, cmb.r)
        IN  /\ r1.err # NoErr =>
                   /\ cmb.calls = <<[decoder |-> 1, r |-> cmb.r]>>
                   /\ cmb.err # NilError /\ cmb.err.wraps = r1.err
            /\ (r1.err = NoErr /\ r2.err # NoErr) =>
                   /\ cmb.calls = <<[decoder |-> 1, r |-> cmb.r], [decoder |-> 2, r |-> cmb.r]>>
                   /\ cmb.err # NilError /\ cmb.err.wraps = r2.err
            /\ (r1.err = NoErr /\ r2.err = NoErr) =>
                   /\ cmb.calls = <<[decoder |-> 1, r |-> cmb.r], [decoder |-> 2, r |-> cmb.r]>>
                   /\ cmb.err = NilError
                   /\ cmb.result = [V1 |-> r1.val, V2 |-> r2.val]
            /\ cmb.err = NilError => (r1.err = NoErr /\ r2.err = NoErr)

\* decoder1 failed, decoder2 would have failed too, and Combine2 has returned
C26_Witness ==
    /\ cmb.pc = "returned"
    /\ cmb.decoder1.err = "e1"
    /\ cmb.decoder2.err = "e2"
    /\ Len(cmb.calls) = 1

\* C27: in the designs that append the input decoder as terminal stage N+1 of
\* the pipeline (chained and flat), a failure of that terminal stage is reported
\* through the input-error handler of the options in use and never through the
\* stage-error handler with index N+1: the stage-error handler is only called
\* with the index 1..N of the stage that failed.
C27_TerminalStageIsInput ==
    (design \in {"chained", "flat"} /\ req # "none") =>
        \A i \in Calls("errorHandler") :
            /\ i > 1
            /\ log[i - 1].ev \in {"decode", "input"} /\ log[i - 1].err = log[i].err
            /\ log[i - 1].ev = "decode" =>
                   log[i].stage = log[i - 1].stage /\ log[i].stage \in 1..Stages
            /\ log[i - 1].ev = "input" =>
                   /\ log[i].stage = 0
                   /\ log[i].h = POptions(hpipe).InputErrorHandler
                   /\ res = IF design = "flat"
                            THEN handleInputError(POptions(hpipe), log[i].err)
                            ELSE CallInputErrorHandler(POptions(hpipe), log[i].err)
                   /\ design = "chained" =>
                          res # CallContextErrorHandler(POptions(hpipe), Stages + 1, log[i].err)

\* the input decoder of a chained handler failed after its stages succeeded,
\* and the error response has been written
C27_Witness ==
    /\ design = "chained"
    /\ pc = "done"
    /\ Len(vals) = Stages
    /\ \E i \in Calls("input") : log[i].err # NoErr
    /\ w.code = StatusBadRequest

\* the decoder and handler invocations of the request in order: what was
\* called, with which arguments (val of a handler call is the context it was
\* given), and what a decoder returned
Invocations ==
    LET calls == SelectSeq(log, LAMBDA e : e.ev \in {"decode", "input", "handler"})
    IN  [i \in DOMAIN calls |->
            [ev |-> calls[i].ev, stage |-> calls[i].stage, args |-> calls[i].args,
             val |-> calls[i].val,
             err |-> calls[i].err]]

\* the first decoder that failed: its position (1..N a stage, N+1 the input
\* decoder, 0 none) and its error
Failure ==
    IF FailedCalls = {} THEN [at |-> 0, err |-> NoErr]
    ELSE LET i == CHOOSE j \in FailedCalls : \A k \in FailedCalls : j <= k
         IN  [at |-> i, err |-> log[i].err]

\* the invocations a pipeline of n stages with an input decoder makes for
\* request r with context c when the decoders have the outcome f, whatever
\* the design
ReferenceInvocations(n, r, c, f) ==
    LET m == IF f.at \in 1..n THEN f.at ELSE n
        stage(i) == [ev |-> "decode", stage |-> i,
                     args |-> [k \in 1..(i - 1) |-> Decoded(k, r)],
                     val |-> IF i = f.at THEN NoVal ELSE Decoded(i, r),
                     err |-> IF i = f.at THEN f.err ELSE NoErr]
        inputCall == [ev |-> "input", stage |-> n + 1, args |-> <<>>,
                      val |-> IF f.at = n + 1 THEN NoVal ELSE Decoded(0, r),
                      err |-> IF f.at = n + 1 THEN f.err ELSE NoErr]
        handlerCall == [ev |-> "handler", stage |-> 0,
                        args |-> Append([k \in 1..n |-> Decoded(k, r)], Decoded(0, r)),
                        val |-> c, err |-> NoErr]
    IN  [i \in 1..m |-> stage(i)]
            \o (IF f.at \in {0, n + 1} THEN <<inputCall>> ELSE <<>>)
            \o (IF f.at = 0 THEN <<handlerCall>> ELSE <<>>)

\* the outcome kind and status code for the outcome f, whatever the design
ReferenceOutcome(f, responder) ==
    IF f.at # 0 THEN [kind |-> "error", code |-> StatusBadRequest]
    ELSE IF responder = NilResponder THEN [kind |-> "noContent", code |-> StatusNoContent]
    ELSE [kind |-> "responder", code |-> responder.statusCode]

\* a request served by a HandlePipelineWithInputN handler over a pipeline
\* built without options has been answered
DefaultOptionsRequestDone ==
    /\ design \in {"separate", "chained", "flat"}
    /\ nopts = 0
    /\ req # "none"
    /\ pc = "done"

\* C28: the three HandlePipelineWithInputN implementations (separate, chained,
\* flat) are observationally equivalent for pipelines with the same decoders
\* and default options: for every arity and every combination of decoder
\* outcomes each of them makes the invocations, and ends with the outcome kind
\* and status code, of one reference that does not depend on the design.
C28_DesignsEquivalent ==
    DefaultOptionsRequestDone =>
        /\ Invocations = ReferenceInvocations(Stages, req, ctx, Failure)
        /\ \A i \in Calls("render") :
               [kind |-> log[i].h, code |-> w.code] = ReferenceOutcome(Failure, res)
        /\ Cardinality(Calls("render")) = 1

\* a request served by a handler built from a chained PipelineN has been
\* answered after its stage k failed
ChainedStageFailed(k) ==
    /\ design \in ChainedDesigns
    /\ req # "none"
    /\ pc = "done"
    /\ Failure.at = k
    /\ k \in 1..Stages

\* C29: in the chained design a handler built from a PipelineN reports the
\* failure of any stage k <= N through the error handlers stored on that
\* outermost PipelineN value, never through the options of the inner pipeline
\* that contributed stage k: the response is the one the outermost stage-error
\* handler gives for (k, err), so an override given when extending to arity N
\* also governs the failures of stages 1..N-1.
C29_OutermostOptionsGovern ==
    \A k \in 1..MaxArity :
        ChainedStageFailed(k) =>
            /\ w = Respond(CallContextErrorHandler(pipe.levels[Stages], k, Failure.err),
                           NewRecorder)
            /\ \A i \in Calls("errorHandler") :
                   /\ log[i].stage = k
                   /\ log[i].h = pipe.levels[Stages].ContextErrorHandler
            /\ (pipe.levels[k].ContextErrorHandler # pipe.levels[Stages].ContextErrorHandler) =>
                   w # Respond(CallContextErrorHandler(pipe.levels[k], k, Failure.err),
                               NewRecorder)

\* stage 1 failed in a handler built from a pipeline whose stage-error handler
\* was overridden at a later extension: the inner pipeline holds another
\* custom handler, and the override has answered
C29_Witness ==
    /\ ChainedStageFailed(1)
    /\ Stages > 1
    /\ pipe.levels[1].ContextErrorHandler \in CustomContextHandlers
    /\ pipe.levels[Stages].ContextErrorHandler \in CustomContextHandlers
    /\ pipe.levels[1].ContextErrorHandler # pipe.levels[Stages].ContextErrorHandler
    /\ w.code = CustomStatus(pipe.levels[Stages].ContextErrorHandler)

\* what the handler stored in the options gives when called with the helper's
\* own stage and error
StoredHandlerResult ==
    IF eh.fn = "handleContextError"
    THEN IF eh.handler = "default" THEN DefaultContextErrorHandler(eh.stage, eh.err)
         ELSE CustomContextErrorHandler(eh.handler, eh.stage, eh.err)
    ELSE IF eh.handler = "default" THEN DefaultInputErrorHandler(eh.err)
         ELSE CustomInputErrorHandler(eh.handler, eh.err)

\* C30: in the flat design, when the options hold no stage-error handler (no
\* input-error handler), handleContextError (handleInputError) does not call a
\* nil function but returns a default Responder that writes status 400 and
\* the body "Error: <error text>"; when a handler is present it is called with
\* the stage index and the error unchanged and its result is returned as is.
C30_NilHandlerFallback ==
    eh.pc \in {"returned", "responded"} =>
        /\ eh.handler = "nil" =>
            /\ eh.ret # PanicResponder
            /\ eh.ret.kind = "ResponderFunc"
            /\ eh.pc = "responded" =>
                /\ eh.w.code = StatusBadRequest
                /\ eh.w.body = <<"Error: ", eh.err>>
                /\ eh.w.writeHeaderCalls = 1
        /\ eh.handler # "nil" =>
            /\ eh.ret = StoredHandlerResult
            /\ eh.pc = "responded" => eh.w = Respond(StoredHandlerResult, NewRecorder)

\* handleInputError was called on options whose input-error handler is nil
\* while a stage-error handler is present, and the Responder it returned has
\* written 400 and the error text
C30_Witness ==
    /\ eh.pc = "responded"
    /\ eh.fn = "handleInputError"
    /\ eh.options.InputErrorHandler = "nil"
    /\ eh.options.ContextErrorHandler \in CustomContextHandlers
    /\ eh.w.code = StatusBadRequest
    /\ eh.w.body = <<"Error: ", "e1">>

====
